---- MODULE Spec2Model ----
(***************************************************************************)
(* A model of the penrosx connection layer (src/src/conn.rs, win.rs,       *)
(* sys.rs): the apps and windows maps of OsxConn, the refresh routine      *)
(* update_known_apps_and_windows, the event handlers reached from          *)
(* handle_event and the command-layer entry points of the Conn trait.      *)
(*                                                                         *)
(* The operating system is the environment: the running applications with  *)
(* their activation policy, the on-screen window list and the geometry of  *)
(* each window are variables that environment actions change between two   *)
(* operations of the connection.  The window-manager engine (penrose) is a *)
(* collaborator outside the repository: only its client set and its        *)
(* current client are modelled, together with the mutations the handlers   *)
(* ask of it; the layout-driven calls its refresh makes back into the      *)
(* command layer are the command actions of this module, taken in any      *)
(* order with any argument.                                                *)
(***************************************************************************)
EXTENDS Integers, FiniteSets, Sequences, TLC

\* Bound of the model: the window numbers the OS uses.
NumWins == 3

WinIds == 1..NumWins

\* conn.rs:44  const ROOT: WinId = WinId(0)
ROOT == 0
\* Option::None where the code holds an Option<WinId>
\* (state.client_set.current_client(), win_id_for_axwin)
None == -1
\* the Err of OsxApp::focused_ax_window, as a reading of the focused window
AxErr == -2

\* kCGWindowOwnerPID of the window with number w: fixed for the window's life.
\* Windows 1 and 2 belong to pid 1, windows 3 and 4 to pid 2, and so on.
OwnerOf(w) == (w + 1) \div 2
\* The process ids the OS uses: those that may own a window.
Pids == {OwnerOf(w) : w \in WinIds}
\* kCGWindowLayer of the window with number w: window 2 is a panel (layer 1).
LayerOf(w) == IF w = 2 THEN 1 ELSE 0

Rect(x, y, w, h) == [x |-> x, y |-> y, w |-> w, h |-> h]
Point(x, y) == [x |-> x, y |-> y]

\* The displays CGDisplay::active_displays reports (spec boundary scenario 2).
Displays == {Rect(0, 0, 1920, 1080), Rect(1920, 0, 2560, 1440)}

\* The rects a window is created with by its application.
R0 == Rect(0, 0, 960, 1080)
R1 == Rect(960, 0, 1600, 1440)

VARIABLES
    osApps,      \* pid -> "none" | "regular" | "hung" | "agent"
    osWins,      \* window number -> "absent" | "ok" | "noax" | "unparsable"
    osBounds,    \* window number -> Rect, the OS's geometry of the window
    osEui,       \* pid -> BOOLEAN, the app's AXEnhancedUserInterface flag
    apps,        \* OsxConn.apps: the set of keys (pids) of the map
    windows,     \* OsxConn.windows: WinId -> OsxWindow record
    hide_pt,     \* OsxConn.hide_pt
    client_set,  \* engine: state.client_set, the managed WinIds
    current,     \* engine: state.client_set.current_client(), None when none
    last,        \* what the last operation of the connection was and returned
    trusted,     \* OS: the process is trusted for the accessibility API
    cursor,      \* OS: the position of the mouse cursor
    ax_timeout,  \* OS: the messaging timeout of the system-wide element, seconds
    event_sender, \* sys.rs EVENT_SENDER: None, or the connection whose channel it sends to
    rx,          \* connection -> "none" | "alive" | "dropped": OsxConn.rx
    chan,        \* connection -> the events in flight in the channel of its rx
    hotkey_tx,   \* main.rs: the sender moved into the hotkey handler, None before
    running,     \* the connection init_wm_and_run was called on, None before
    startup,     \* the steps of init_wm_and_run executed so far, in order
    ax_observers, \* an AXObserverWrapper is registered on the main run loop
    crash,       \* "none", or why the process panicked or exited
    cb,          \* the last callback that ran on the main thread and what it did
    mainSent,    \* the events the workspace and accessibility callbacks sent, in order
    rcvd         \* the events next_event returned, in order

sysVars == <<trusted, cursor, ax_timeout, event_sender, rx, chan, hotkey_tx, running,
             startup, ax_observers, crash, cb, mainSent, rcvd>>

vars == <<osApps, osWins, osBounds, osEui, apps, windows, hide_pt,
          client_set, current, last, sysVars>>

osVars == <<osApps, osWins, osBounds, osEui>>
connVars == <<apps, windows, hide_pt>>
engVars == <<client_set, current>>

(***************************************************************************)
(* Small helpers.                                                          *)
(***************************************************************************)
Restrict(f, S) == [k \in (DOMAIN f) \cap S |-> f[k]]

\* What an operation leaves in `last` about the operation before it: only a
\* refresh, manage_existing_clients and position_client are remembered, and
\* only when no step of the environment came in between.
PrevTracked == {"refresh", "manage_existing_clients", "position_client"}
NoPrev == [op |-> "-", arg |-> None, res |-> "-"]
PrevOf(l) ==
    IF l.op \in PrevTracked THEN [op |-> l.op, arg |-> l.arg, res |-> l.res]
    ELSE NoPrev

NoEng == [managed |-> {}, unmanaged |-> {}, focus |-> None]
\* `log` is the sequence of the calls the operation made on the OS or on the
\* engine, for the operations whose order of calls is recorded.
NoLast ==
    [op |-> "-", arg |-> None, res |-> "-", nref |-> 0, ret |-> None,
     eng |-> NoEng, prev |-> NoPrev, log |-> <<>>]
\* In the specification of the whole system (Spec) no history is kept: there
\* `last` stays HistoryOff.  The specifications of single operations keep it.
HistoryOff == [NoLast EXCEPT !.op = "off"]
Done(op, arg, res, nref, ret, eng) ==
    IF last.op = "off" THEN last
    ELSE [op |-> op, arg |-> arg, res |-> res, nref |-> nref, ret |-> ret,
          eng |-> eng, prev |-> PrevOf(last), log |-> <<>>]
\* the same, for an operation whose calls were made in the order of log
DoneLog(op, arg, res, nref, ret, eng, log) ==
    IF last.op = "off" THEN last
    ELSE [Done(op, arg, res, nref, ret, eng) EXCEPT !.log = log]
\* `last` after a step of the environment
EnvDone == IF last.op = "off" THEN last ELSE NoLast

(***************************************************************************)
(* Platform bindings (sys.rs, win.rs): what the OS reports.                *)
(***************************************************************************)
\* a running_applications without the filter on activationPolicy
RunningApplications_AnyPolicy == {p \in Pids : osApps[p] # "none"}
\* sys.rs running_applications: the running processes with activationPolicy 0
RunningApplications == {p \in Pids : osApps[p] \in {"regular", "hung"}}

\* win.rs OsxApp::try_new: fails when an observer cannot be attached
TryNewOk(p) == osApps[p] = "regular"

\* kCGWindowOwnerName of the windows of process p
OwnerName(p) == <<"app", p>>
\* kCGWindowName of window w, an optional key: <<>> when the dictionary has
\* none (window 3)
WindowName(w) == IF w = NumWins THEN <<>> ELSE <<"window", w>>

\* win.rs OsxWindow::try_from_dict: the record built from a window dictionary
TryFromDict(w) ==
    [win_id |-> w, owner_pid |-> OwnerOf(w), window_layer |-> LayerOf(w),
     bounds |-> osBounds[w], owner |-> OwnerName(OwnerOf(w)),
     window_name |-> WindowName(w)]

\* a current_windows that does not skip the windows whose handle is not found
CurrentWindows_NoSkip ==
    [w \in {v \in WinIds : osWins[v] # "absent"} |-> TryFromDict(w)]

\* win.rs OsxWindow::current_windows: one record per on-screen window whose
\* accessibility handle resolves; the others are skipped
CurrentWindows ==
    [w \in {v \in WinIds : osWins[v] = "ok"} |-> TryFromDict(w)]

\* conn.rs screen_details: the displays sorted by x; set_hide_pt takes the last
LastScreen == CHOOSE r \in Displays : \A q \in Displays : q.x <= r.x
\* conn.rs set_hide_pt
HidePtOf(r) == Point(r.x + r.w - 1, r.y + r.h - 1)

\* The most displays CGDisplay::active_displays enumerates at once.
MaxDisplays == 3
\* The bounds a display may have: the two of the boundary scenario, one
\* stacked above the right one (same x), one below the left one and one to
\* the left of the origin.
CandidateDisplays ==
    Displays \cup {Rect(1920, 1440, 2560, 1440), Rect(0, 1080, 1920, 1080),
                   Rect(-1280, 0, 1280, 1024)}
\* The lists active_displays may return, in the order of the OS.
Enumerations == UNION {[1..n -> CandidateDisplays] : n \in 0..MaxDisplays}

\* slice::sort_by_key(|r| r.x) is a stable sort: r goes after the elements of
\* the sorted list s whose x is not larger.
InsertByX(s, r) ==
    LET k == Cardinality({i \in 1..Len(s) : s[i].x <= r.x}) IN
    SubSeq(s, 1, k) \o <<r>> \o SubSeq(s, k + 1, Len(s))
RECURSIVE SortByX(_)
SortByX(seq) ==
    IF seq = <<>> THEN <<>>
    ELSE InsertByX(SortByX(SubSeq(seq, 1, Len(seq) - 1)), seq[Len(seq)])

\* conn.rs screen_details without the sort: the order of the OS
ScreenDetails_Unsorted(enum) == enum
\* conn.rs screen_details, when active_displays returned enum
ScreenDetails(enum) == SortByX(enum)

(***************************************************************************)
(* Connection state (conn.rs): refresh and lookups.                        *)
(***************************************************************************)
\* a refresh whose retain keeps the pids that stopped and drops those that run
RefreshedApps_RetainInverted(a) ==
    {p \in a : p \notin RunningApplications}
        \cup {p \in RunningApplications : p \notin a /\ TryNewOk(p)}

\* conn.rs update_known_apps_and_windows, lines 147-159: the apps map
RefreshedApps(a) ==
    {p \in a : p \in RunningApplications}
        \cup {p \in RunningApplications : p \notin a /\ TryNewOk(p)}

\* conn.rs update_known_apps_and_windows, lines 163-166: the windows map
RefreshedWindows == CurrentWindows

\* win_mut!, win_prop and the lookups of kill_client and focus_client: a miss
\* refreshes once.  The maps as the lookup of id leaves them:
MissRefreshes(id) == IF id \in DOMAIN windows THEN 0 ELSE 1
\* a lookup that gives up on a miss without the refresh
WindowsAfterLookup_NoRetry(id) == windows
AppsAfterLookup(id) == IF id \in DOMAIN windows THEN apps ELSE RefreshedApps(apps)
WindowsAfterLookup(id) == IF id \in DOMAIN windows THEN windows ELSE RefreshedWindows

(***************************************************************************)
(* The engine's client set, as the handlers change it.                     *)
(***************************************************************************)
\* ConnExt::manage for each id of ids, in any order: each id not yet managed
\* is inserted; the ids already managed are left where they are
EngManaged(cs, ids) == cs \cup ids
\* ConnExt::unmanage for each id of ids: remove_client
EngUnmanaged(cs, ids) == cs \ ids
\* the current clients possible after the clients ids were removed
CurrentAfterRemove(cs, cur, ids) ==
    IF cur \in ids THEN (cs \ ids) \cup {None} ELSE {cur}
\* cs.focus_client(id): focus moves to id when id is a client
CurrentAfterFocus(cs, cur, id) == IF id \in cs THEN id ELSE cur

\* conn.rs set_hide_pt: active_displays fails (~ok), or there is no display
\* (NoScreens), or the hide point is the corner of the last display.
SetHidePt(enum, ok) ==
    /\ ok \/ enum = <<>>
    /\ LET res == IF ~ok THEN "Err"
                  ELSE IF ScreenDetails(enum) = <<>> THEN "NoScreens" ELSE "Ok"
       IN
       /\ hide_pt' = IF res = "Ok"
                     THEN HidePtOf(ScreenDetails(enum)[Len(ScreenDetails(enum))])
                     ELSE hide_pt
       /\ last' = Done("set_hide_pt", enum, res, 0, None, NoEng)
    /\ UNCHANGED <<osVars, apps, windows, engVars, sysVars>>

(***************************************************************************)
(* Initial state: OsxConn::new followed by set_hide_pt in init_wm_and_run. *)
(* The OS is in any state: some processes run, some windows are on screen. *)
(***************************************************************************)
AppStates == {"none", "regular", "hung", "agent"}
WinStates == {"absent", "ok", "noax"}

\* a process that does not run has no window on screen
OsConsistent(a, w) ==
    \A v \in WinIds : a[OwnerOf(v)] = "none" => w[v] = "absent"

\* The connections OsxConn::new may build in one process.
MaxConns == 2
ConnIds == 1..MaxConns
\* The most events sent to the channel of one connection.
MaxSends == 3
\* sys.rs set_ax_timeout: AXUIElementSetMessagingTimeout(.., 1.0)
AxTimeoutSecs == 1

\* conn.rs init_wm_and_run: its steps in the order of the code
StartupOrder_ObserversFirst ==
    <<"proc_is_ax_trusted", "register_observers", "set_ax_timeout",
      "set_hide_pt", "setActivationPolicy", "spawn", "activate", "run">>
StartupOrder ==
    <<"proc_is_ax_trusted", "set_ax_timeout", "set_hide_pt",
      "setActivationPolicy", "spawn", "register_observers", "activate", "run">>

NoCb == [src |-> "-", outcome |-> "-"]

\* the process before main has built a connection
SysBoot ==
    /\ cursor = Point(0, 0)
    /\ ax_timeout = None
    /\ event_sender = None
    /\ rx = [c \in ConnIds |-> "none"]
    /\ chan = [c \in ConnIds |-> <<>>]
    /\ hotkey_tx = None
    /\ running = None
    /\ startup = <<>>
    /\ ax_observers = FALSE
    /\ crash = "none"
    /\ cb = NoCb
    /\ mainSent = <<>>
    /\ rcvd = <<>>

\* the process once init_wm_and_run of the first connection entered the run
\* loop: the state the commands and the event handlers of the engine run in
SysRunning ==
    /\ trusted = TRUE
    /\ cursor = Point(0, 0)
    /\ ax_timeout = AxTimeoutSecs
    /\ event_sender = 1
    /\ rx = [c \in ConnIds |-> IF c = 1 THEN "alive" ELSE "none"]
    /\ chan = [c \in ConnIds |-> <<>>]
    /\ hotkey_tx = 1
    /\ running = 1
    /\ startup = StartupOrder
    /\ ax_observers = FALSE
    /\ crash = "none"
    /\ cb = NoCb
    /\ mainSent = <<>>
    /\ rcvd = <<>>

(***************************************************************************)
(* The event source: EVENT_SENDER, the channel, the callbacks of the main  *)
(* thread, the hotkey handler and the start of the process.                *)
(***************************************************************************)
baseVars == <<osVars, apps, windows, engVars, last>>

\* OnceLock::set as OsxConn::new calls it, were the slot overwritten
EventSenderAfterNew_Replace(cur, c) == c
\* conn.rs OsxConn::new: `_ = EVENT_SENDER.set(tx)`, a set of a slot already
\* set fails and the failure is ignored
EventSenderAfterNew(cur, c) == IF cur = None THEN c ELSE cur

\* conn.rs OsxConn::new: the connections are numbered in the order built
New(c) ==
    /\ crash = "none"
    /\ rx[c] = "none"
    /\ \A d \in ConnIds : d < c => rx[d] # "none"
    /\ rx' = [rx EXCEPT ![c] = "alive"]
    /\ event_sender' = EventSenderAfterNew(event_sender, c)
    /\ UNCHANGED <<baseVars, hide_pt, trusted, cursor, ax_timeout, chan, hotkey_tx,
                   running, startup, ax_observers, crash, cb, mainSent, rcvd>>

\* main.rs main: register_global_hotkeys(conn.event_tx())?, before
\* init_wm_and_run; on an error main returns and the process exits
RegisterGlobalHotkeys(ok) ==
    /\ crash = "none"
    /\ startup = <<>>
    /\ hotkey_tx = None
    /\ \E c \in ConnIds : rx[c] = "alive"
    /\ hotkey_tx' = IF ok THEN event_sender ELSE None
    /\ crash' = IF ok THEN "none" ELSE "exit"
    /\ UNCHANGED <<baseVars, hide_pt, trusted, cursor, ax_timeout, event_sender, rx,
                   chan, running, startup, ax_observers, cb, mainSent, rcvd>>

Did(name) == \E i \in 1..Len(startup) : startup[i] = name

\* the next step of init_wm_and_run is `name`
StartupStep(name) ==
    /\ crash = "none"
    /\ Len(startup) < Len(StartupOrder)
    /\ StartupOrder[Len(startup) + 1] = name
    /\ startup' = Append(startup, name)

\* conn.rs init_wm_and_run on connection c: the trust check and its panic
ProcIsAxTrusted(c) ==
    /\ StartupStep("proc_is_ax_trusted")
    /\ rx[c] = "alive"
    /\ running' = c
    /\ crash' = IF trusted THEN "none" ELSE "not_trusted"
    /\ UNCHANGED <<baseVars, hide_pt, trusted, cursor, ax_timeout, event_sender, rx,
                   chan, hotkey_tx, ax_observers, cb, mainSent, rcvd>>

\* sys.rs set_ax_timeout
SetAxTimeout ==
    /\ StartupStep("set_ax_timeout")
    /\ ax_timeout' = AxTimeoutSecs
    /\ UNCHANGED <<baseVars, hide_pt, trusted, cursor, event_sender, rx, chan,
                   hotkey_tx, running, ax_observers, crash, cb, mainSent, rcvd>>

\* conn.rs init_wm_and_run: self.set_hide_pt().unwrap()
InitSetHidePt(enum) ==
    /\ StartupStep("set_hide_pt")
    /\ IF ScreenDetails(enum) = <<>>
       THEN crash' = "no_screens" /\ hide_pt' = hide_pt
       ELSE /\ crash' = crash
            /\ hide_pt' = HidePtOf(ScreenDetails(enum)[Len(ScreenDetails(enum))])
    /\ UNCHANGED <<baseVars, trusted, cursor, ax_timeout, event_sender, rx, chan,
                   hotkey_tx, running, ax_observers, cb, mainSent, rcvd>>

\* a step of init_wm_and_run that changes nothing the connection reads
PlainStep(name) ==
    /\ StartupStep(name)
    /\ UNCHANGED <<baseVars, hide_pt, trusted, cursor, ax_timeout, event_sender, rx,
                   chan, hotkey_tx, running, ax_observers, crash, cb,
                   mainSent, rcvd>>
\* app.setActivationPolicy_(NSApplicationActivationPolicyRegular)
SetActivationPolicy == PlainStep("setActivationPolicy")
\* spawn(move || { WindowManager::new(.., self) .. wm.run() })
SpawnEngine == PlainStep("spawn")
\* register_observers(global_observer())
RegisterObservers == PlainStep("register_observers")
\* current_app.activateWithOptions_(..)
ActivateSelf == PlainStep("activate")
\* app.run()
RunLoop == PlainStep("run")

\* win.rs OsxApp::try_new on the engine thread (a refresh): the observers of
\* an app are created and added to the main run loop
EngineRegistersAxObservers ==
    /\ crash = "none"
    /\ Did("spawn")
    /\ rx[running] = "alive"
    /\ ~ax_observers
    /\ ax_observers' = TRUE
    /\ UNCHANGED <<baseVars, hide_pt, trusted, cursor, ax_timeout, event_sender, rx,
                   chan, hotkey_tx, running, startup, crash, cb, mainSent, rcvd>>

\* Receiver::recv, were the newest event returned first
RecvSplit_Lifo(q) == [evt |-> q[Len(q)], rest |-> SubSeq(q, 1, Len(q) - 1)]
\* conn.rs next_event: self.rx.recv() returns the oldest event in flight
RecvSplit(q) == [evt |-> Head(q), rest |-> Tail(q)]

\* Receiver::recv fails only when the channel is empty and no Sender of it is
\* left: neither the one in EVENT_SENDER nor the clone of the hotkey handler
Disconnected == event_sender = None /\ hotkey_tx = None
\* what next_event hands to the engine when recv fails
RecvError == [kind |-> "RecvError", arg |-> None]

\* conn.rs next_event on the engine thread: the oldest event in flight; with
\* none in flight it blocks while a Sender is left, and returns the error
\* of recv otherwise
NextEvent ==
    /\ crash = "none"
    /\ Did("spawn")
    /\ rx[running] = "alive"
    /\ IF chan[running] # <<>>
       THEN /\ chan' = [chan EXCEPT ![running] = RecvSplit(chan[running]).rest]
            /\ rcvd' = Append(rcvd, RecvSplit(chan[running]).evt)
       ELSE /\ Disconnected
            /\ chan' = chan
            /\ rcvd' = Append(rcvd, RecvError)
    /\ UNCHANGED <<baseVars, hide_pt, trusted, cursor, ax_timeout, event_sender, rx,
                   hotkey_tx, running, startup, ax_observers, crash, cb, mainSent>>

\* A connection is dropped, and its receiver with it: the engine thread ends
\* (conn.rs init_wm_and_run, the closure of spawn), or a connection that was
\* never run goes out of scope.  The events in flight are dropped too.
DropConn(c) ==
    /\ crash = "none"
    /\ rx[c] = "alive"
    /\ c = running => Did("spawn")
    /\ rx' = [rx EXCEPT ![c] = "dropped"]
    /\ chan' = [chan EXCEPT ![c] = <<>>]
    /\ UNCHANGED <<baseVars, hide_pt, trusted, cursor, ax_timeout, event_sender,
                   hotkey_tx, running, startup, ax_observers, crash, cb,
                   mainSent, rcvd>>

\* sys.rs impl_handlers!: the six handlers of the workspace observer
WorkspaceKinds ==
    {"AppActivated", "AppDeactivated", "AppLaunched", "AppTerminated",
     "AppHidden", "AppUnhidden"}
\* sys.rs APP_NOTIFICATIONS and WIN_NOTIFICATIONS
AxNotifications ==
    {"AXWindowCreated", "AXFocusedWindowChanged", "AXUIElementDestroyed",
     "AXWindowDeminiaturized", "AXWindowMiniaturized", "AXMoved", "AXResized"}
\* sys.rs ax_observer_callback: the match on the notification name
AxEventKind(notif) ==
    CASE notif = "AXWindowCreated" -> "WindowCreated"
      [] notif = "AXFocusedWindowChanged" -> "FocusedWindowChanged"
      [] notif = "AXUIElementDestroyed" -> "UiElementDestroyed"
      [] notif = "AXWindowDeminiaturized" -> "WindowDeminiturized"
      [] notif = "AXWindowMiniaturized" -> "WindowMiniturized"
      [] notif = "AXMoved" -> "WindowMoved"
      [] notif = "AXResized" -> "WindowResized"
      [] OTHER -> "unknown"

\* The width of i32 and u32, and of a pointer (usize), scaled down: an i32
\* is one of -2^(IntBits-1) .. 2^(IntBits-1)-1, a u32 one of 0 .. 2^IntBits-1.
IntBits == 4
PtrBits == 8
I32s == -(2^(IntBits - 1)) .. (2^(IntBits - 1) - 1)
U32s == 0 .. (2^IntBits - 1)
\* win.rs OsxApp::try_new: without_provenance_mut(pid as usize); the cast of
\* an i32 to usize extends the sign
PidRefcon(pid) == pid % (2^PtrBits)
\* win.rs try_from_dict: without_provenance_mut(win_id as usize), of a u32
WinRefcon(id) == id
\* `p.addr() as _` read as a u32 where a pid (i32) is meant: no sign
AddrAsPid_Unsigned(addr) == addr % (2^IntBits)
\* sys.rs ax_observer_callback: `p.addr() as _` for a pid (i32): the low
\* bits, in two's complement
AddrAsPid(addr) ==
    LET t == addr % (2^IntBits) IN
    IF t >= 2^(IntBits - 1) THEN t - 2^IntBits ELSE t
\* sys.rs ax_observer_callback: `(p.addr() as u32).into()` for a WinId
AddrAsWinId(addr) == addr % (2^IntBits)
\* sys.rs ax_observer_callback, the arm `s => { error!(..); return; }`
NoEvent == [kind |-> "none", arg |-> None]
\* sys.rs ax_observer_callback, the match: the event for notification notif
\* with refcon p, NoEvent for a name that is not known
CallbackEvent(notif, p) ==
    IF AxEventKind(notif) = "unknown" THEN NoEvent
    ELSE [kind |-> AxEventKind(notif),
          arg |-> IF AxEventKind(notif) \in {"WindowCreated", "FocusedWindowChanged"}
                  THEN AddrAsPid(p) ELSE AddrAsWinId(p)]
\* the refcon the observer of notif was registered with, for the pid or the
\* window id v (APP_NOTIFICATIONS in OsxApp::try_new, WIN_NOTIFICATIONS in
\* try_from_dict)
RefconFor(notif, v) ==
    IF notif \in {"AXWindowCreated", "AXFocusedWindowChanged"}
    THEN PidRefcon(v) ELSE WinRefcon(v)

\* Sender::send fails exactly when the receiver was dropped
SendOk(tx) == rx[tx] = "alive"
ChanAfterSend(tx, evt) ==
    IF SendOk(tx) THEN [chan EXCEPT ![tx] = Append(@, evt)] ELSE chan
\* a callback that unwrapped the result of send
CrashOnSend_Unwrap(sendOk) == IF sendOk THEN "none" ELSE "callback_panic"
\* sys.rs `_ = tx.send(evt)`: the result of send is ignored
CrashOnSend(sendOk) == "none"
\* a channel of capacity one (sync_channel(1)): a send waits while an event
\* is in flight
Room_Bounded(tx) == chan[tx] = <<>> /\ Len(rcvd) < MaxSends
\* the channel is unbounded; the model stops sending at MaxSends events
Room(tx) == Len(rcvd) + Len(chan[tx]) < MaxSends

\* sys.rs impl_handlers!: a handler of the workspace observer, run by the run
\* loop of the main thread: EVENT_SENDER.get().unwrap().send(..)
WorkspaceCallback(kind, pid) ==
    /\ crash = "none"
    /\ Did("register_observers") /\ Did("run")
    /\ IF event_sender = None
       THEN /\ crash' = "callback_panic"
            /\ cb' = [src |-> "workspace", outcome |-> "panic"]
            /\ UNCHANGED <<chan, mainSent>>
       ELSE LET evt == [kind |-> kind, arg |-> pid]
                ok == SendOk(event_sender)
            IN
            /\ ok => Room(event_sender)
            /\ chan' = ChanAfterSend(event_sender, evt)
            /\ mainSent' = IF ok THEN Append(mainSent, evt) ELSE mainSent
            /\ crash' = CrashOnSend(ok)
            /\ cb' = [src |-> "workspace",
                      outcome |-> IF ok THEN "sent" ELSE "discarded"]
    /\ UNCHANGED <<baseVars, hide_pt, trusted, cursor, ax_timeout, event_sender, rx,
                   hotkey_tx, running, startup, ax_observers, rcvd>>

\* sys.rs ax_observer_callback, run by the run loop of the main thread
AxObserverCallback(notif, p) ==
    /\ crash = "none"
    /\ ax_observers /\ Did("run")
    /\ IF AxEventKind(notif) = "unknown"
       THEN /\ cb' = [src |-> "ax", outcome |-> "unknown"]
            /\ UNCHANGED <<chan, mainSent, crash>>
       ELSE IF event_sender = None
       THEN /\ cb' = [src |-> "ax", outcome |-> "no_sender"]
            /\ UNCHANGED <<chan, mainSent, crash>>
       ELSE LET evt == CallbackEvent(notif, p)
                ok == SendOk(event_sender)
            IN
            /\ ok => Room(event_sender)
            /\ chan' = ChanAfterSend(event_sender, evt)
            /\ mainSent' = IF ok THEN Append(mainSent, evt) ELSE mainSent
            /\ crash' = CrashOnSend(ok)
            /\ cb' = [src |-> "ax", outcome |-> IF ok THEN "sent" ELSE "discarded"]
    /\ UNCHANGED <<baseVars, hide_pt, trusted, cursor, ax_timeout, event_sender, rx,
                   hotkey_tx, running, startup, ax_observers, rcvd>>

\* main.rs register_global_hotkeys: the handler of GlobalHotKeyEvent; a press
\* of a registered hotkey is sent as KeyPress, anything else is ignored
HotkeyEvent(state, known, k) ==
    /\ crash = "none"
    /\ hotkey_tx # None /\ Did("run")
    /\ IF state = "Pressed" /\ known
       THEN LET ok == SendOk(hotkey_tx) IN
            /\ ok => Room(hotkey_tx)
            /\ chan' = ChanAfterSend(hotkey_tx, [kind |-> "KeyPress", arg |-> k])
            /\ cb' = [src |-> "hotkey", outcome |-> IF ok THEN "sent" ELSE "discarded"]
       ELSE /\ cb' = [src |-> "hotkey", outcome |-> "ignored"]
            /\ UNCHANGED chan
    /\ UNCHANGED <<baseVars, hide_pt, trusted, cursor, ax_timeout, event_sender, rx,
                   hotkey_tx, running, startup, ax_observers, crash, mainSent,
                   rcvd>>

InitConn ==
    /\ SysRunning
    /\ apps = {}
    /\ windows = <<>>
    /\ hide_pt = HidePtOf(LastScreen)
    /\ client_set = {}
    /\ current = None

Init ==
    /\ osApps \in [Pids -> AppStates]
    /\ osWins \in [WinIds -> WinStates]
    /\ OsConsistent(osApps, osWins)
    /\ osBounds = [w \in WinIds |-> R0]
    /\ osEui = [p \in Pids |-> FALSE]
    /\ InitConn
    /\ last = HistoryOff

(***************************************************************************)
(* The environment: the OS between two operations of the connection.       *)
(***************************************************************************)
\* a process launches, terminates, hangs, resumes or changes its policy
OsAppChange(p, s) ==
    /\ s # osApps[p]
    /\ osApps' = [osApps EXCEPT ![p] = s]
    /\ osWins' = [w \in WinIds |->
                    IF s = "none" /\ OwnerOf(w) = p THEN "absent" ELSE osWins[w]]
    /\ osEui' = IF s = "none" THEN [osEui EXCEPT ![p] = FALSE] ELSE osEui
    /\ last' = EnvDone
    /\ UNCHANGED <<osBounds, connVars, sysVars, engVars>>

\* a window comes on screen, leaves it, or its accessibility handle starts or
\* stops resolving
OsWinChange(w, s) ==
    /\ s # osWins[w]
    /\ s # "absent" => osApps[OwnerOf(w)] # "none"
    /\ osWins' = [osWins EXCEPT ![w] = s]
    /\ last' = EnvDone
    /\ UNCHANGED <<osApps, osBounds, osEui, connVars, sysVars, engVars>>

(***************************************************************************)
(* Refresh and the enumerating commands.                                   *)
(***************************************************************************)
\* conn.rs update_known_apps_and_windows
RefreshKnown ==
    /\ apps' = RefreshedApps(apps)
    /\ windows' = RefreshedWindows
    /\ last' = Done("refresh", None, "Ok", 1, None, NoEng)
    /\ UNCHANGED <<osVars, hide_pt, sysVars, engVars>>

\* conn.rs existing_clients
ExistingClients ==
    /\ apps' = RefreshedApps(apps)
    /\ windows' = RefreshedWindows
    /\ last' = Done("existing_clients", None, "Ok", 1, DOMAIN RefreshedWindows, NoEng)
    /\ UNCHANGED <<osVars, hide_pt, sysVars, engVars>>

\* conn.rs client_should_be_managed, on a map that holds id
ClientShouldBeManaged(ws, id) == id \in DOMAIN ws /\ ws[id].window_layer = 0

\* conn.rs manage_existing_clients: the ids it hands to manage_without_refresh
ToManage(ws, cs) == {id \in DOMAIN ws : id \notin cs /\ ClientShouldBeManaged(ws, id)}

\* conn.rs manage_existing_clients; scrOk is whether screen_details succeeds
ManageExistingClients(scrOk) ==
    /\ apps' = RefreshedApps(apps)
    /\ windows' = RefreshedWindows
    /\ IF scrOk
       THEN LET new == ToManage(RefreshedWindows, client_set) IN
            /\ client_set' = EngManaged(client_set, new)
            /\ current' \in new \cup {current}
            /\ last' = Done("manage_existing_clients", None, "Ok", 1, None,
                            [NoEng EXCEPT !.managed = new])
       ELSE /\ UNCHANGED engVars
            /\ last' = Done("manage_existing_clients", None, "Err", 1, None, NoEng)
    /\ UNCHANGED <<osVars, hide_pt, sysVars>>

(***************************************************************************)
(* Event handlers (conn.rs handle_event and the functions it dispatches to)*)
(***************************************************************************)
\* What focused_ax_window of the app pid may yield: AxErr for an error, None
\* for an element that is no on-screen window, or an on-screen window of pid.
FocusedReadings(pid) ==
    {AxErr} \cup
    (IF osApps[pid] = "none" THEN {}
     ELSE {None} \cup {w \in WinIds : OwnerOf(w) = pid /\ osWins[w] # "absent"})

\* conn.rs win_id_for_axwin: the tracked window with that handle, if any
WinIdForAxwin(ws, f) == IF f \in DOMAIN ws THEN f ELSE None

\* a handler without the short-circuit
AlreadyFocused_Never(cur, maybe_id) == FALSE

\* conn.rs focus_active_app_window, line 249: the short-circuit
AlreadyFocused(cur, maybe_id) == cur = maybe_id

\* a manage_new_windows that passes over the windows of a layer other than 0
NewWindowsToManage_Layer0(ws, cs) ==
    {id \in DOMAIN ws : id \notin cs /\ ws[id].window_layer = 0}

\* conn.rs manage_new_windows: the ids it manages
NewWindowsToManage(ws, cs) == {id \in DOMAIN ws : id \notin cs}

\* conn.rs focus_active_app_window, lines 252-255: manage_new_windows, then
\* cs.focus_client; the engine calls in the order they are made
ManageThenFocus(new) ==
    IF new = {} THEN <<"focus_client">> ELSE <<"manage", "focus_client">>

\* conn.rs focus_active_app_window, reached for AppActivated, AppLaunched and
\* FocusedWindowChanged; f is the reading of the app's focused window
FocusActiveAppWindow(evt, pid, f) ==
    LET hit == pid \in apps
        a1 == IF hit THEN apps ELSE RefreshedApps(apps)
        w1 == IF hit THEN windows ELSE RefreshedWindows
        n == IF hit THEN 0 ELSE 1
        maybe_id == WinIdForAxwin(w1, f)
    IN
    /\ apps' = a1
    /\ windows' = w1
    /\ UNCHANGED <<osVars, hide_pt, sysVars>>
    /\ IF pid \notin a1
       THEN /\ UNCHANGED engVars
            /\ last' = Done(evt, <<pid, f>>, "Err", n, None, NoEng)
       ELSE IF f = AxErr \/ AlreadyFocused(current, maybe_id) \/ maybe_id = None
       THEN /\ UNCHANGED engVars
            /\ last' = Done(evt, <<pid, f>>, "Ok", n, None, NoEng)
       ELSE LET new == NewWindowsToManage(w1, client_set)
                cs1 == EngManaged(client_set, new)
            IN
            /\ client_set' = cs1
            /\ current' = CurrentAfterFocus(cs1, current, maybe_id)
            /\ last' = DoneLog(evt, <<pid, f>>, "Ok", n, None,
                               [NoEng EXCEPT !.managed = new, !.focus = maybe_id],
                               ManageThenFocus(new))

FocusEvents == {"AppActivated", "AppLaunched", "FocusedWindowChanged"}

\* a filter that compares the window id, not its owner, with pid
WindowsOfPid_ById(ws, pid) == {id \in DOMAIN ws : ws[id].win_id = pid}

\* conn.rs clear_terminated_app_state: the ids of the windows of pid
WindowsOfPid(ws, pid) == {id \in DOMAIN ws : ws[id].owner_pid = pid}

\* the maps of the connection and the client set of the engine, as one value
Tracked(a, ws, cs) == [apps |-> a, windows |-> ws, client_set |-> cs]

\* a clear_closed_window_state that forgets to unmanage the window
AfterUiElementDestroyed_NoUnmanage(st, id) ==
    Tracked(st.apps, Restrict(st.windows, (DOMAIN st.windows) \ {id}), st.client_set)
\* conn.rs clear_terminated_app_state: apps.remove, windows.retain and the
\* unmanage of each window of pid
AfterAppTerminated(st, pid) ==
    LET ids == WindowsOfPid(st.windows, pid) IN
    Tracked(st.apps \ {pid},
            Restrict(st.windows, (DOMAIN st.windows) \ ids),
            EngUnmanaged(st.client_set, ids))
\* conn.rs clear_closed_window_state: windows.remove(&id) and unmanage(id)
AfterUiElementDestroyed(st, id) ==
    Tracked(st.apps,
            Restrict(st.windows, (DOMAIN st.windows) \ {id}),
            EngUnmanaged(st.client_set, {id}))

\* conn.rs clear_terminated_app_state, reached for AppTerminated
ClearTerminatedAppState(pid) ==
    LET ids == WindowsOfPid(windows, pid)
        st == AfterAppTerminated(Tracked(apps, windows, client_set), pid)
    IN
    /\ apps' = st.apps
    /\ windows' = st.windows
    /\ client_set' = st.client_set
    /\ current' \in CurrentAfterRemove(client_set, current, ids)
    /\ last' = Done("AppTerminated", pid, "Ok", 0, None,
                    [NoEng EXCEPT !.unmanaged = ids])
    /\ UNCHANGED <<osVars, hide_pt, sysVars>>

\* a diff that forgets the owner filter
NewWindowsForPid_AnyOwner(old_ids, ws, pid) ==
    {id \in DOMAIN ws : id \notin old_ids}

\* conn.rs handle_new_window_for_pid: the new windows of pid after the refresh
NewWindowsForPid(old_ids, ws, pid) ==
    {id \in DOMAIN ws : ws[id].owner_pid = pid /\ id \notin old_ids}

\* new_windows.last(): new_windows is collected from HashMap::values(), whose
\* order is unspecified, so any of the new windows may come last
LastOfNewWindows(new) == new

\* conn.rs handle_new_window_for_pid, reached for WindowCreated
HandleNewWindowForPid(pid) ==
    LET old_ids == DOMAIN windows
        w1 == RefreshedWindows
        new == NewWindowsForPid(old_ids, w1, pid)
    IN
    /\ apps' = RefreshedApps(apps)
    /\ windows' = w1
    /\ UNCHANGED <<osVars, hide_pt, sysVars>>
    /\ IF new = {}
       THEN /\ UNCHANGED engVars
            /\ last' = Done("WindowCreated", pid, "Ok", 1, None, NoEng)
       ELSE \E focus \in LastOfNewWindows(new) :
            LET cs1 == EngManaged(client_set, new) IN
            /\ client_set' = cs1
            /\ current' = CurrentAfterFocus(cs1, current, focus)
            /\ last' = Done("WindowCreated", pid, "Ok", 1, None,
                            [NoEng EXCEPT !.managed = new, !.focus = focus])

\* conn.rs clear_closed_window_state, reached for UiElementDestroyed
ClearClosedWindowState(id) ==
    /\ windows' = AfterUiElementDestroyed(Tracked(apps, windows, client_set), id).windows
    /\ client_set' = AfterUiElementDestroyed(Tracked(apps, windows, client_set), id).client_set
    /\ current' \in CurrentAfterRemove(client_set, current, {id})
    /\ last' = Done("UiElementDestroyed", id, "Ok", 0, None,
                    [NoEng EXCEPT !.unmanaged = {id}])
    /\ UNCHANGED <<osVars, apps, hide_pt, sysVars>>

(***************************************************************************)
(* Commands that read or write the geometry of a window.                   *)
(***************************************************************************)
\* win.rs enhanced_user_interface_enabled: bool_attr yields false on an error
EuiRead(pid) == osApps[pid] # "none" /\ osEui[pid]

\* conn.rs win_prop with the projection |win| win.bounds (client_geometry)
ClientGeometry(id) ==
    LET w1 == WindowsAfterLookup(id) IN
    /\ apps' = AppsAfterLookup(id)
    /\ windows' = w1
    /\ last' = IF id \in DOMAIN w1
               THEN Done("client_geometry", id, "Ok", MissRefreshes(id),
                         w1[id].bounds, NoEng)
               ELSE Done("client_geometry", id, "UnknownClient",
                         MissRefreshes(id), None, NoEng)
    /\ UNCHANGED <<osVars, hide_pt, sysVars, engVars>>

\* a closure that forgets win.bounds = r
PositionClosure_NoCache(win, osb, r, posOk, sizeOk) ==
    IF ~posOk
    THEN [res |-> "Err", bounds |-> win.bounds, osb |-> osb]
    ELSE IF ~sizeOk
    THEN [res |-> "Err", bounds |-> win.bounds,
          osb |-> [osb EXCEPT !.x = r.x, !.y = r.y]]
    ELSE [res |-> "Ok", bounds |-> win.bounds, osb |-> r]

\* a closure that caches the bounds the OS had before the writes
PositionClosure_Stale(win, osb, r, posOk, sizeOk) ==
    IF ~posOk
    THEN [res |-> "Err", bounds |-> win.bounds, osb |-> osb]
    ELSE IF ~sizeOk
    THEN [res |-> "Err", bounds |-> win.bounds,
          osb |-> [osb EXCEPT !.x = r.x, !.y = r.y]]
    ELSE [res |-> "Ok", bounds |-> osb, osb |-> r]

\* a closure that caches r before the size is written
PositionClosure_CacheFirst(win, osb, r, posOk, sizeOk) ==
    IF ~posOk
    THEN [res |-> "Err", bounds |-> win.bounds, osb |-> osb]
    ELSE IF ~sizeOk
    THEN [res |-> "Err", bounds |-> r,
          osb |-> [osb EXCEPT !.x = r.x, !.y = r.y]]
    ELSE [res |-> "Ok", bounds |-> r, osb |-> r]

\* The closure of position_client: set_pos, set_size, then win.bounds = r.
\* Yields the result, the cached bounds and the OS bounds it leaves.
PositionClosure(win, osb, r, posOk, sizeOk) ==
    IF ~posOk
    THEN [res |-> "Err", bounds |-> win.bounds, osb |-> osb]
    ELSE IF ~sizeOk
    THEN [res |-> "Err", bounds |-> win.bounds,
          osb |-> [osb EXCEPT !.x = r.x, !.y = r.y]]
    ELSE [res |-> "Ok", bounds |-> r, osb |-> r]

\* a closure that caches the whole rect the OS holds after the move
HideClosure_OsRect(win, osb, p, posOk) ==
    IF ~posOk
    THEN [res |-> "Err", bounds |-> win.bounds, osb |-> osb]
    ELSE [res |-> "Ok", bounds |-> [osb EXCEPT !.x = p.x, !.y = p.y],
          osb |-> [osb EXCEPT !.x = p.x, !.y = p.y]]

\* The closure of hide_client: set_pos to the hide point, then bounds.x, .y
HideClosure(win, osb, p, posOk) ==
    IF ~posOk
    THEN [res |-> "Err", bounds |-> win.bounds, osb |-> osb]
    ELSE [res |-> "Ok", bounds |-> [win.bounds EXCEPT !.x = p.x, !.y = p.y],
          osb |-> [osb EXCEPT !.x = p.x, !.y = p.y]]

\* a scope that forgets that the disable write failed
ReenableAttempted_Always(was_read, euiOffOk) == was_read

\* conn.rs with_suppressed_animations, lines 216-221: was_enabled after the
\* disable write was tried
ReenableAttempted(was_read, euiOffOk) == was_read /\ euiOffOk

\* a scope that never writes the flag back
EuiAfter_NoRestore(before, disabled, reenable, euiOnOk) ==
    IF disabled THEN FALSE ELSE before

\* conn.rs with_suppressed_animations: the app's flag after the scope, from
\* the flag before it, whether the disable write took effect, whether the
\* re-enable write was issued and whether it took effect
EuiAfter(before, disabled, reenable, euiOnOk) ==
    IF disabled THEN (reenable /\ euiOnOk) ELSE before

\* conn.rs with_suppressed_animations: the calls in the order they are made
SuppressedCalls(was_read, reenable) ==
    (IF was_read THEN <<"eui_off">> ELSE <<>>) \o <<"f">>
        \o (IF reenable THEN <<"eui_on">> ELSE <<>>)

\* conn.rs with_suppressed_animations around the closure of position_client
\* (kind "position") or of hide_client (kind "hide"); euiOffOk and euiOnOk are
\* whether the two writes of the enhanced-user-interface flag succeed.
WithSuppressedAnimations(op, arg, id, kind, r, posOk, sizeOk, euiOffOk, euiOnOk) ==
    LET n == MissRefreshes(id)
        a1 == AppsAfterLookup(id)
        w1 == WindowsAfterLookup(id)
    IN
    /\ apps' = a1
    /\ UNCHANGED <<osApps, osWins, hide_pt, sysVars, engVars>>
    /\ IF id \notin DOMAIN w1
       THEN /\ windows' = w1
            /\ UNCHANGED <<osBounds, osEui>>
            /\ last' = Done(op, arg, "UnknownClient", n, None, NoEng)
       ELSE LET pid == w1[id].owner_pid IN
            IF pid \notin a1
            THEN /\ windows' = w1
                 /\ UNCHANGED <<osBounds, osEui>>
                 /\ last' = Done(op, arg, "Err", n, None, NoEng)
            ELSE LET was_read == EuiRead(pid)
                     was_enabled == ReenableAttempted(was_read, euiOffOk)
                     out == IF kind = "position"
                            THEN PositionClosure(w1[id], osBounds[id], r, posOk, sizeOk)
                            ELSE HideClosure(w1[id], osBounds[id], hide_pt, posOk)
                 IN
                 /\ windows' = [w1 EXCEPT ![id].bounds = out.bounds]
                 /\ osBounds' = [osBounds EXCEPT ![id] = out.osb]
                 /\ osEui' = [osEui EXCEPT ![pid] =
                                EuiAfter(osEui[pid], was_read /\ euiOffOk,
                                         was_enabled, euiOnOk)]
                 /\ last' = DoneLog(op, arg, out.res, n, None, NoEng,
                                    SuppressedCalls(was_read, was_enabled))

\* an OS write through a window's handle can succeed only while the window
\* exists
WriteMaySucceed(id, ok) == ok => osWins[id] # "absent"
\* a write that is attempted only after another one succeeded has an outcome
\* only then: set_size after set_pos, the re-enable after the disable
Attempted(firstOk, secondOk) == secondOk => firstOk

\* conn.rs position_client
PositionClient(id, r, posOk, sizeOk, euiOffOk, euiOnOk) ==
    /\ WriteMaySucceed(id, posOk)
    /\ Attempted(posOk, sizeOk) /\ Attempted(euiOffOk, euiOnOk)
    /\ WithSuppressedAnimations("position_client", <<id, r>>, id, "position", r,
                                posOk, sizeOk, euiOffOk, euiOnOk)

\* conn.rs hide_client
HideClient(id, posOk, euiOffOk, euiOnOk) ==
    /\ WriteMaySucceed(id, posOk)
    /\ Attempted(euiOffOk, euiOnOk)
    /\ WithSuppressedAnimations("hide_client", <<id>>, id, "hide", R0,
                                posOk, posOk, euiOffOk, euiOnOk)

\* the connection is alive until an operation panicked: the panic unwinds the
\* engine thread, which owns the connection
Alive == last.res # "panic"

\* a show_client that moves the window back from the hide point
AfterShow_Restore(ws, id) ==
    IF id \in DOMAIN ws THEN [ws EXCEPT ![id].bounds = osBounds[id]] ELSE ws
\* conn.rs show_client: Ok(()), the windows map as it was
AfterShow(ws, id) == ws

\* conn.rs show_client
ShowClient(id) ==
    /\ Alive
    /\ windows' = AfterShow(windows, id)
    /\ last' = DoneLog("show_client", id, "Ok", 0, None, NoEng, <<>>)
    /\ UNCHANGED <<osVars, apps, hide_pt, sysVars, engVars>>

\* conn.rs handle_event: the events whose handler is Ok(()) (AppDeactivated,
\* handle_app_hidden, handle_app_unhidden, handle_window_position,
\* handle_window_miniturized, handle_window_deminiturized)
NoOpEvents ==
    {"AppDeactivated", "AppHidden", "AppUnhidden", "WindowMoved",
     "WindowResized", "WindowMiniturized", "WindowDeminiturized"}
\* a handler that refreshes when a window moved or was resized
AfterNoOpEvent_Refresh(ws, kind) ==
    IF kind \in {"WindowMoved", "WindowResized"} THEN RefreshedWindows ELSE ws
\* the windows map after the handler of an event of NoOpEvents
AfterNoOpEvent(ws, kind) == ws

\* conn.rs handle_event for an event of NoOpEvents that carries the pid or
\* the window id arg
NoOpEvent(kind, arg) ==
    /\ Alive
    /\ kind \in NoOpEvents
    /\ windows' = AfterNoOpEvent(windows, kind)
    /\ last' = DoneLog(kind, arg, "Ok", 0, None, NoEng, <<>>)
    /\ UNCHANGED <<osVars, apps, hide_pt, sysVars, engVars>>

(***************************************************************************)
(* focus_client.                                                           *)
(***************************************************************************)
\* a focus_client that activates the application before it raises the window
FocusCalls_ActivateFirst(mainOk, raiseOk) ==
    IF ~mainOk THEN [res |-> "Err", log |-> <<"activate", "set_main">>]
    ELSE IF ~raiseOk THEN [res |-> "Err", log |-> <<"activate", "set_main", "raise">>]
    ELSE [res |-> "Ok", log |-> <<"activate", "set_main", "raise">>]

\* conn.rs focus_client, lines 500-503, with win.rs OsxWindow::raise: the OS
\* calls in the order they are made and the result; mainOk and raiseOk are
\* whether axwin.set_main(true) and axwin.raise() succeed
FocusCalls(mainOk, raiseOk) ==
    IF ~mainOk THEN [res |-> "Err", log |-> <<"set_main">>]
    ELSE IF ~raiseOk THEN [res |-> "Err", log |-> <<"set_main", "raise">>]
    ELSE [res |-> "Ok", log |-> <<"set_main", "raise", "activate">>]

\* conn.rs focus_client
FocusClient(id, mainOk, raiseOk) ==
    LET a1 == AppsAfterLookup(id)
        w1 == WindowsAfterLookup(id)
        n == MissRefreshes(id)
    IN
    /\ Alive
    /\ Attempted(mainOk, raiseOk)
    /\ apps' = a1
    /\ windows' = w1
    /\ UNCHANGED <<osVars, hide_pt, sysVars, engVars>>
    /\ last' = IF id \notin DOMAIN w1
               THEN Done("focus_client", id, "UnknownClient", n, None, NoEng)
               ELSE IF w1[id].owner_pid \notin a1
               THEN Done("focus_client", id, "panic", n, None, NoEng)
               ELSE LET out == FocusCalls(mainOk, raiseOk) IN
                    DoneLog("focus_client", id, out.res, n, None, NoEng, out.log)

(***************************************************************************)
(* kill_client and client_title.                                           *)
(***************************************************************************)
\* win.rs OsxWindow::close.  `button` is a null pointer that is handed to
\* AXUIElementCopyAttributeValue as the place of the result and never
\* assigned, so button.is_null() holds whether or not the window has a close
\* button (readable): the press action is never reached.
CloseCalls(readable) == [res |-> "Err", log |-> <<"copy_close_button">>]

\* a kill_client that closes without the lookup
KillCalls_NoLookup(found, readable) == CloseCalls(readable)
\* conn.rs kill_client: win.close() on the window found, UnknownClient on a
\* miss after the refresh
KillCalls(found, readable) ==
    IF found THEN CloseCalls(readable)
    ELSE [res |-> "UnknownClient", log |-> <<>>]

\* conn.rs kill_client
KillClient(id, readable) ==
    LET w1 == WindowsAfterLookup(id)
        out == KillCalls(id \in DOMAIN w1, readable)
    IN
    /\ Alive
    /\ apps' = AppsAfterLookup(id)
    /\ windows' = w1
    /\ last' = DoneLog("kill_client", <<id, readable>>, out.res,
                       MissRefreshes(id), None, NoEng, out.log)
    /\ UNCHANGED <<osVars, hide_pt, sysVars, engVars>>

\* conn.rs client_title: the closure of win_prop
TitleOf(win) == IF win.window_name = <<>> THEN win.owner ELSE win.window_name

\* conn.rs client_title
ClientTitle(id) ==
    LET w1 == WindowsAfterLookup(id) IN
    /\ Alive
    /\ apps' = AppsAfterLookup(id)
    /\ windows' = w1
    /\ last' = IF id \in DOMAIN w1
               THEN Done("client_title", id, "Ok", MissRefreshes(id),
                         TitleOf(w1[id]), NoEng)
               ELSE Done("client_title", id, "UnknownClient",
                         MissRefreshes(id), None, NoEng)
    /\ UNCHANGED <<osVars, hide_pt, sysVars, engVars>>

\* a warp_pointer that takes (x, y) as absolute for every id
WarpPoint_Absolute(id, ws, x, y) == Point(x, y)
\* conn.rs warp_pointer, lines 427-432: the point the cursor is warped to
WarpPoint(id, ws, x, y) ==
    IF id = ROOT THEN Point(x, y)
    ELSE Point(ws[id].bounds.x + x, ws[id].bounds.y + y)

\* conn.rs warp_pointer; warpOk is whether warp_mouse_cursor_position
\* succeeds, mainOk and raiseOk are the outcomes of focus_client's writes
WarpPointer(id, x, y, warpOk, mainOk, raiseOk) ==
    LET root == id = ROOT
        a1 == IF root THEN apps ELSE AppsAfterLookup(id)
        w1 == IF root THEN windows ELSE WindowsAfterLookup(id)
        n == IF root THEN 0 ELSE MissRefreshes(id)
        found == root \/ id \in DOMAIN w1
        p == IF found THEN WarpPoint(id, w1, x, y) ELSE None
        out == FocusCalls(mainOk, raiseOk)
    IN
    /\ Alive
    /\ Attempted(warpOk, mainOk) /\ Attempted(mainOk, raiseOk)
    /\ apps' = a1
    /\ windows' = w1
    /\ cursor' = IF found /\ warpOk THEN p ELSE cursor
    /\ last' = IF ~found
               THEN Done("warp_pointer", <<id, x, y>>, "UnknownClient", n, None, NoEng)
               ELSE IF ~warpOk
               THEN DoneLog("warp_pointer", <<id, x, y>>, "Err", n, p, NoEng, <<"warp">>)
               ELSE IF root
               THEN DoneLog("warp_pointer", <<id, x, y>>, "Ok", n, p, NoEng, <<"warp">>)
               ELSE IF w1[id].owner_pid \notin a1
               THEN DoneLog("warp_pointer", <<id, x, y>>, "panic", n, p, NoEng, <<"warp">>)
               ELSE DoneLog("warp_pointer", <<id, x, y>>, out.res, n, p, NoEng,
                            <<"warp">> \o out.log)
    /\ UNCHANGED <<osVars, hide_pt, engVars, trusted, ax_timeout, event_sender,
                   rx, chan, hotkey_tx, running, startup, ax_observers, crash,
                   cb, mainSent, rcvd>>

(***************************************************************************)
(* Spec: the connection among the applications and windows the OS runs,    *)
(* every process and window changing at any time.                          *)
(***************************************************************************)
Env ==
    \/ \E p \in Pids, s \in AppStates : OsAppChange(p, s)
    \/ \E w \in WinIds, s \in WinStates : OsWinChange(w, s)

Events ==
    \/ \E e \in FocusEvents, pid \in Pids :
          \E f \in FocusedReadings(pid) : FocusActiveAppWindow(e, pid, f)
    \/ \E pid \in Pids : ClearTerminatedAppState(pid)
    \/ \E pid \in Pids : HandleNewWindowForPid(pid)
    \/ \E id \in WinIds : ClearClosedWindowState(id)

Next ==
    \/ Env
    \/ Events
    \/ RefreshKnown
    \/ ExistingClients
    \/ \E scrOk \in BOOLEAN : ManageExistingClients(scrOk)
    \/ \E id \in WinIds : ClientGeometry(id)
    \/ \E id \in WinIds, posOk, sizeOk \in BOOLEAN :
          PositionClient(id, R0, posOk, sizeOk, TRUE, TRUE)

Spec == Init /\ [][Next]_vars

(***************************************************************************)
(* SpecRefresh: refresh and the lookups that fall back on it, the engine   *)
(* idle.                                                                   *)
(***************************************************************************)
NextRefresh ==
    \/ Env
    \/ RefreshKnown
    \/ ExistingClients
    \/ \E id \in WinIds : ClientGeometry(id)

InitRefresh ==
    /\ osApps \in [Pids -> AppStates]
    /\ osWins \in [WinIds -> WinStates]
    /\ OsConsistent(osApps, osWins)
    /\ osBounds = [w \in WinIds |-> R0]
    /\ osEui = [p \in Pids |-> FALSE]
    /\ InitConn
    /\ last = NoLast

SpecRefresh == InitRefresh /\ [][NextRefresh]_vars

(***************************************************************************)
(* SpecManage: bootstrap of the engine (manage_existing_clients) while     *)
(* windows come and go; every process runs with regular policy.            *)
(***************************************************************************)
InitAppsRegular ==
    /\ osApps = [p \in Pids |-> "regular"]
    /\ osWins \in [WinIds -> WinStates]
    /\ osBounds = [w \in WinIds |-> R0]
    /\ osEui = [p \in Pids |-> FALSE]
    /\ InitConn
    /\ last = NoLast

NextManage ==
    \/ \E w \in WinIds, s \in WinStates : OsWinChange(w, s)
    \/ ExistingClients
    \/ \E scrOk \in BOOLEAN : ManageExistingClients(scrOk)

SpecManage == InitAppsRegular /\ [][NextManage]_vars

\* SpecEnum: the same steps, started with windows on screen whose record
\* try_from_dict cannot build for another reason than a handle not found
\* ("unparsable": the handle resolves, then kCGWindowLayer, kCGWindowBounds
\* or kCGWindowOwnerName is missing, the bounds do not parse, or an observer
\* does not attach).
InitEnum ==
    /\ osApps = [p \in Pids |-> "regular"]
    /\ osWins \in [WinIds -> WinStates \cup {"unparsable"}]
    /\ osBounds = [w \in WinIds |-> R0]
    /\ osEui = [p \in Pids |-> FALSE]
    /\ InitConn
    /\ last = NoLast

SpecEnum == InitEnum /\ [][NextManage]_vars

(***************************************************************************)
(* SpecObservers: the native observers OsxApp::try_new creates, attaches,  *)
(* retains and releases.                                                   *)
(***************************************************************************)
\* sys.rs APP_NOTIFICATIONS, in the order try_new maps over them
APP_NOTIFICATIONS == <<"AXWindowCreated", "AXFocusedWindowChanged">>
\* what the OS answers to the calls of one AXObserverWrapper::try_new
ObserverOutcomes == {"ok", "create_err", "add_err"}

\* sys.rs AXObserverWrapper::try_new: the native observer it leaves behind.
\* AXObserverCreate hands out one reference and CFRetain takes a second; a
\* failure of AXObserverAddNotification returns without releasing either.
AXObserverTryNew(pid, notif, o) ==
    [notif |-> notif, refcon |-> pid,
     res |-> IF o = "ok" THEN "Ok" ELSE "Err",
     refs |-> IF o = "create_err" THEN 0 ELSE 2,
     attached |-> o = "ok",
     source |-> o = "ok"]
\* sys.rs Drop for AXObserverWrapper: AXObserverRemoveNotification and one
\* CFRelease; the run loop source stays on the main run loop
AXObserverDrop(n) == [n EXCEPT !.attached = FALSE, !.refs = @ - 1]

\* win.rs OsxApp::try_new, lines 258-261: collect::<Result<Vec<_>>>() stops
\* at the first Err and drops the wrappers collected before it
TryNewObservers(pid, o1, o2) ==
    LET n1 == AXObserverTryNew(pid, APP_NOTIFICATIONS[1], o1)
        n2 == AXObserverTryNew(pid, APP_NOTIFICATIONS[2], o2)
    IN
    IF n1.res = "Err" THEN [res |-> "Err", natives |-> <<n1>>]
    ELSE IF n2.res = "Err" THEN [res |-> "Err", natives |-> <<AXObserverDrop(n1), n2>>]
    ELSE [res |-> "Ok", natives |-> <<n1, n2>>]

\* win.rs OsxApp::try_new on a running application; the observers of an
\* application that answers attach, those of one that hangs do not all
OsxAppTryNew(pid, o1, o2) ==
    /\ pid \in RunningApplications
    /\ TryNewOk(pid) <=> (o1 = "ok" /\ o2 = "ok")
    /\ last' = DoneLog("OsxApp::try_new", <<pid, o1, o2>>,
                       TryNewObservers(pid, o1, o2).res, 0,
                       TryNewObservers(pid, o1, o2).natives, NoEng, <<>>)
    /\ UNCHANGED <<osVars, connVars, sysVars, engVars>>

\* sys.rs WIN_NOTIFICATIONS, in the order try_from_dict maps over them
WIN_NOTIFICATIONS ==
    <<"AXUIElementDestroyed", "AXWindowDeminiaturized", "AXWindowMiniaturized",
      "AXMoved", "AXResized">>
\* the observers a record holds, by the kind of record
ObserversOf(kind) == IF kind = "app" THEN APP_NOTIFICATIONS ELSE WIN_NOTIFICATIONS
\* sys.rs Drop for AXObserverWrapper: the calls it makes, in order
ObserverDropCalls(notif) ==
    <<<<"AXObserverRemoveNotification", notif>>, <<"CFRelease", notif>>>>
RECURSIVE VecDropCalls(_)
\* the drop of Vec<AXObserverWrapper>: its elements, first to last
VecDropCalls(notifs) ==
    IF notifs = <<>> THEN <<>>
    ELSE ObserverDropCalls(Head(notifs)) \o VecDropCalls(Tail(notifs))
\* a record whose element handle is declared before its observers
RecordDropCalls_ElementFirst(kind) ==
    <<<<"CFRelease", "element">>>> \o VecDropCalls(ObserversOf(kind))
\* win.rs OsxWindow and OsxApp: the fields are dropped in the order they are
\* declared, _observers before axwin (axapp)
RecordDropCalls(kind) ==
    VecDropCalls(ObserversOf(kind)) \o <<<<"CFRelease", "element">>>>

\* the record of the application or of the window v is discarded
DropRecord(kind, v) ==
    /\ last' = DoneLog("drop", <<kind, v>>, "Ok", 0, None, NoEng,
                       RecordDropCalls(kind))
    /\ UNCHANGED <<osVars, connVars, sysVars, engVars>>

NextObservers ==
    \/ \E p \in Pids : DropRecord("app", p)
    \/ \E w \in WinIds : DropRecord("window", w)
    \/ \E p \in Pids, st \in AppStates : OsAppChange(p, st)
    \/ \E pid \in Pids, o1 \in ObserverOutcomes, o2 \in ObserverOutcomes :
          OsxAppTryNew(pid, o1, o2)

SpecObservers == InitRefresh /\ [][NextObservers]_vars

(***************************************************************************)
(* SpecEvents: the event handlers, windows opening and closing; every      *)
(* process runs with regular policy and every handle resolves.  Of the     *)
(* three events that reach focus_active_app_window only AppActivated is    *)
(* delivered here.                                                         *)
(***************************************************************************)
InitEvents ==
    /\ osApps = [p \in Pids |-> "regular"]
    /\ osWins \in [WinIds -> {"absent", "ok"}]
    /\ osBounds = [w \in WinIds |-> R0]
    /\ osEui = [p \in Pids |-> FALSE]
    /\ InitConn
    /\ last = NoLast

NextEvents ==
    \/ \E w \in WinIds, s \in {"absent", "ok"} : OsWinChange(w, s)
    \/ \E pid \in Pids :
          \E f \in FocusedReadings(pid) : FocusActiveAppWindow("AppActivated", pid, f)
    \/ \E pid \in Pids : ClearTerminatedAppState(pid)
    \/ \E pid \in Pids : HandleNewWindowForPid(pid)
    \/ \E id \in WinIds : ClearClosedWindowState(id)

SpecEvents == InitEvents /\ [][NextEvents]_vars

(***************************************************************************)
(* SpecFocus: the three events that reach focus_active_app_window, windows *)
(* opening and closing and their destruction notified.                     *)
(***************************************************************************)
NextFocus ==
    \/ \E w \in WinIds, s \in {"absent", "ok"} : OsWinChange(w, s)
    \/ \E e \in FocusEvents, pid \in Pids :
          \E f \in FocusedReadings(pid) : FocusActiveAppWindow(e, pid, f)
    \/ \E id \in WinIds : ClearClosedWindowState(id)

SpecFocus == InitEvents /\ [][NextFocus]_vars

(***************************************************************************)
(* SpecFocusCmd: focus_client among windows that open and close and        *)
(* processes that run with regular or with another activation policy; the  *)
(* connection stops at a panic.                                            *)
(***************************************************************************)
InitFocusCmd ==
    /\ osApps \in [Pids -> {"regular", "agent"}]
    /\ osWins \in [WinIds -> {"absent", "ok"}]
    /\ osBounds = [w \in WinIds |-> R0]
    /\ osEui = [p \in Pids |-> FALSE]
    /\ InitConn
    /\ last = NoLast

NextFocusCmd ==
    \/ \E p \in Pids, s \in {"regular", "agent"} : Alive /\ OsAppChange(p, s)
    \/ \E w \in WinIds, s \in {"absent", "ok"} : Alive /\ OsWinChange(w, s)
    \/ Alive /\ RefreshKnown
    \/ \E id \in WinIds, mainOk, raiseOk \in BOOLEAN : FocusClient(id, mainOk, raiseOk)

SpecFocusCmd == InitFocusCmd /\ [][NextFocusCmd]_vars

\* Refreshes and events while processes start, stop and change their
\* activation policy.
NextPolicy ==
    \/ \E p \in Pids, s \in {"none", "regular", "agent"} : OsAppChange(p, s)
    \/ \E w \in WinIds, s \in {"absent", "ok"} : OsWinChange(w, s)
    \/ RefreshKnown
    \/ \E pid \in Pids : ClearTerminatedAppState(pid)
    \/ \E pid \in Pids : HandleNewWindowForPid(pid)

SpecPolicy == InitFocusCmd /\ [][NextPolicy]_vars

(***************************************************************************)
(* SpecGeom: the geometry commands on windows 1 and 3, which applications  *)
(* and users also move; no process starts or stops.                        *)
(***************************************************************************)
CmdRects == {R0, R1}

\* the application or the user moves and resizes a window
OsMoveWindow(w, r) ==
    /\ osWins[w] # "absent"
    /\ r # osBounds[w]
    /\ osBounds' = [osBounds EXCEPT ![w] = r]
    /\ last' = EnvDone
    /\ UNCHANGED <<osApps, osWins, osEui, connVars, sysVars, engVars>>

\* the application switches its enhanced-user-interface flag
OsEuiToggle(p) ==
    /\ osApps[p] # "none"
    /\ osEui' = [osEui EXCEPT ![p] = ~osEui[p]]
    /\ last' = EnvDone
    /\ UNCHANGED <<osApps, osWins, osBounds, connVars, sysVars, engVars>>

\* set_hide_pt on a connection as OsxConn::new built it
InitScreens ==
    /\ osApps = [p \in Pids |-> "regular"]
    /\ osWins = [w \in WinIds |-> "absent"]
    /\ osBounds = [w \in WinIds |-> R0]
    /\ osEui = [p \in Pids |-> FALSE]
    /\ apps = {}
    /\ windows = <<>>
    /\ hide_pt = Point(0, 0)
    /\ client_set = {}
    /\ current = None
    /\ last = NoLast
    /\ SysRunning

NextScreens == \E enum \in Enumerations, ok \in BOOLEAN : SetHidePt(enum, ok)

SpecScreens == InitScreens /\ [][NextScreens]_vars

\* The process from the start of main: connections are built, the hotkeys
\* registered, init_wm_and_run called; then the engine thread receives what
\* the callbacks send.
InitSys ==
    /\ osApps = [p \in Pids |-> "regular"]
    /\ osWins = [w \in WinIds |-> "absent"]
    /\ osBounds = [w \in WinIds |-> R0]
    /\ osEui = [p \in Pids |-> FALSE]
    /\ apps = {}
    /\ windows = <<>>
    /\ hide_pt = Point(0, 0)
    /\ client_set = {}
    /\ current = None
    /\ last = NoLast
    /\ trusted \in BOOLEAN
    /\ SysBoot

NextSys ==
    \/ \E c \in ConnIds : New(c)
    \/ \E ok \in BOOLEAN : RegisterGlobalHotkeys(ok)
    \/ \E c \in ConnIds : ProcIsAxTrusted(c)
    \/ SetAxTimeout
    \/ \E enum \in {<<>>, <<Rect(1920, 0, 2560, 1440), Rect(0, 0, 1920, 1080)>>} :
          InitSetHidePt(enum)
    \/ SetActivationPolicy
    \/ SpawnEngine
    \/ RegisterObservers
    \/ ActivateSelf
    \/ RunLoop
    \/ EngineRegistersAxObservers
    \/ NextEvent
    \/ \E c \in ConnIds : DropConn(c)
    \/ \E kind \in {"AppActivated", "AppTerminated"} : WorkspaceCallback(kind, 1)
    \/ \E notif \in {"AXWindowCreated", "AXUIElementDestroyed", "AXTitleChanged"} :
          AxObserverCallback(notif, 1)
    \/ \E state \in {"Pressed", "Released"}, known \in BOOLEAN :
          HotkeyEvent(state, known, 0)

SpecSys == InitSys /\ [][NextSys]_vars

(***************************************************************************)
(* SpecThreads: the callbacks of the main thread send while the engine     *)
(* thread, the only owner of the connection, receives and handles events.  *)
(***************************************************************************)
\* conn.rs handle_event on the engine thread: the match on the event
HandleEvent(evt) ==
    \/ /\ evt.kind \in {"AppActivated", "AppLaunched", "FocusedWindowChanged"}
       /\ \E f \in FocusedReadings(evt.arg) :
             FocusActiveAppWindow(evt.kind, evt.arg, f)
    \/ /\ evt.kind = "AppTerminated"
       /\ ClearTerminatedAppState(evt.arg)
    \/ /\ evt.kind = "WindowCreated"
       /\ HandleNewWindowForPid(evt.arg)

NextThreads ==
    \/ \E s \in {"absent", "ok"} : OsWinChange(1, s)
    \/ \E kind \in {"AppLaunched", "AppTerminated"} : WorkspaceCallback(kind, 1)
    \/ EngineRegistersAxObservers
    \/ AxObserverCallback("AXWindowCreated", 1)
    \/ NextEvent
    \/ rcvd # <<>> /\ HandleEvent(rcvd[Len(rcvd)])

SpecThreads == InitEvents /\ [][NextThreads]_vars
\* the engine keeps calling next_event (the loop of WindowManager::run)
SpecThreadsFair == SpecThreads /\ WF_vars(NextEvent)

(***************************************************************************)
(* SpecRefcon: an observer registered for a pid or a window id fires; the  *)
(* callback decodes the refcon.                                            *)
(***************************************************************************)
\* a notification name of neither APP_NOTIFICATIONS nor WIN_NOTIFICATIONS
UnknownNotifications == {"AXTitleChanged", "AXApplicationHidden"}
\* the integers an observer of notif may have been registered with
Registered(notif) ==
    IF notif \in {"AXWindowCreated", "AXFocusedWindowChanged"} THEN I32s
    ELSE IF notif \in AxNotifications THEN U32s
    ELSE I32s \cup U32s

\* sys.rs ax_observer_callback, lines 150-174, for the observer of notif
\* registered with v: the event it builds from the refcon
ObserverFires(notif, v) ==
    /\ last' = DoneLog("ax_observer_callback", <<notif, v>>,
                       IF CallbackEvent(notif, RefconFor(notif, v)) = NoEvent
                       THEN "dropped" ELSE "Ok",
                       0, CallbackEvent(notif, RefconFor(notif, v)), NoEng,
                       <<RefconFor(notif, v)>>)
    /\ UNCHANGED <<osVars, connVars, sysVars, engVars>>

NextRefcon ==
    \E notif \in AxNotifications \cup UnknownNotifications :
        \E v \in Registered(notif) : ObserverFires(notif, v)

SpecRefcon == InitEvents /\ [][NextRefcon]_vars

\* The commands that look a window up by id, while windows come and go.
InitLookup ==
    /\ osApps = [p \in Pids |-> "regular"]
    /\ osWins \in [WinIds -> {"absent", "ok"}]
    /\ osBounds = [w \in WinIds |-> R0]
    /\ osEui = [p \in Pids |-> FALSE]
    /\ InitConn
    /\ last = NoLast

NextLookup ==
    \/ \E w \in WinIds, s \in {"absent", "ok"} : OsWinChange(w, s)
    \/ RefreshKnown
    \/ \E id \in WinIds, posOk \in BOOLEAN :
          PositionClient(id, R0, posOk, posOk, FALSE, FALSE)
    \/ \E id \in WinIds : HideClient(id, FALSE, FALSE, FALSE)
    \/ \E id \in WinIds, readable \in BOOLEAN : KillClient(id, readable)
    \/ \E id \in WinIds, raiseOk \in BOOLEAN : FocusClient(id, TRUE, raiseOk)
    \/ \E id \in WinIds : ClientGeometry(id)
    \/ \E id \in WinIds : ClientTitle(id)
    \/ \E kind \in NoOpEvents :
          \E arg \in (IF kind \in {"AppDeactivated", "AppHidden", "AppUnhidden"}
                       THEN Pids ELSE WinIds) : NoOpEvent(kind, arg)

SpecLookup == InitLookup /\ [][NextLookup]_vars

InitGeom ==
    /\ osApps = [p \in Pids |-> "regular"]
    /\ osWins = [w \in WinIds |-> IF w \in {1, 3} THEN "ok" ELSE "absent"]
    /\ osBounds = [w \in WinIds |-> R0]
    /\ osEui = [p \in Pids |-> FALSE]
    /\ InitConn
    /\ last = NoLast

NextGeom ==
    \/ \E w \in WinIds, r \in CmdRects : OsMoveWindow(w, r)
    \/ OsEuiToggle(1)
    \/ RefreshKnown
    \/ \E id \in WinIds : ClientGeometry(id)
    \/ \E id \in WinIds, r \in CmdRects, posOk, sizeOk, euiOffOk, euiOnOk \in BOOLEAN :
          PositionClient(id, r, posOk, sizeOk, euiOffOk, euiOnOk)

SpecGeom == InitGeom /\ [][NextGeom]_vars

\* warp_pointer on the root and on windows 1 and 3, which the user also moves
NextWarp ==
    \/ \E r \in CmdRects : OsMoveWindow(1, r)
    \/ RefreshKnown
    \/ \E id \in WinIds \cup {ROOT}, xy \in {<<0, 0>>, <<480, 540>>},
          warpOk, raiseOk \in BOOLEAN :
          WarpPointer(id, xy[1], xy[2], warpOk, warpOk, raiseOk)

SpecWarp == InitGeom /\ [][NextWarp]_vars

(***************************************************************************)
(* SpecAnim: position_client and hide_client inside the scope that         *)
(* suppresses animations, on windows 1 and 3, which applications and users *)
(* also move, the application of window 1 switching its flag.              *)
(***************************************************************************)
NextAnim ==
    \/ \E w \in WinIds : OsMoveWindow(w, R1)
    \/ OsEuiToggle(1)
    \/ RefreshKnown
    \/ \E id \in WinIds, posOk, sizeOk, euiOffOk, euiOnOk \in BOOLEAN :
          PositionClient(id, R0, posOk, sizeOk, euiOffOk, euiOnOk)
    \/ \E id \in WinIds, posOk, euiOffOk, euiOnOk \in BOOLEAN :
          HideClient(id, posOk, euiOffOk, euiOnOk)
    \/ \E id \in WinIds : ShowClient(id)

SpecAnim == InitGeom /\ [][NextAnim]_vars

(***************************************************************************)
(* Properties.                                                             *)
(***************************************************************************)
OnScreen == {w \in WinIds : osWins[w] # "absent"}
Resolvable == {w \in WinIds : osWins[w] = "ok"}

\* C1: after any sequence of handled events and command-layer calls, every
\* WinId key of the windows map has an owner_pid that is a key of the apps
\* map.
C1_WindowOwnersAreApps ==
    \A id \in DOMAIN windows : windows[id].owner_pid \in apps

\* C2: refresh is idempotent under a quiescent OS: a call of
\* update_known_apps_and_windows that follows another one with no change of
\* the OS in between leaves the apps map and the windows map (keys and cached
\* attributes) as the first call left them.
C2_RefreshIdempotent ==
    [][(last.op = "refresh" /\ RefreshKnown)
          => (apps' = apps /\ windows' = windows)]_vars

C2_Witness ==
    /\ last.op = "refresh" /\ last.prev.op = "refresh"
    /\ DOMAIN windows # {} /\ apps # {}
    /\ \E p \in RunningApplications : p \notin apps

C4_PositionThenGeometry ==
    [][/\ (/\ last.op = "position_client" /\ last.res = "Ok"
           /\ ClientGeometry(last.arg[1]))
          => (last'.res = "Ok" /\ last'.ret = last.arg[2])
       /\ (last'.op = "position_client" /\ last'.res = "Ok")
          => \A posOk, sizeOk, e1, e2 \in BOOLEAN :
                PositionClient(last'.arg[1], last'.arg[2], posOk, sizeOk, e1, e2)
                    => (posOk /\ sizeOk)]_vars

C4_Witness ==
    /\ last.op = "client_geometry" /\ last.res = "Ok"
    /\ last.prev.op = "position_client" /\ last.prev.res = "Ok"
    /\ last.prev.arg = <<last.arg, R1>>
    /\ last.ret = R1

\* C5: position_client is idempotent: after a successful position_client(id, r)
\* a second position_client(id, r) whose writes the OS accepts returns Ok and
\* leaves the cached bounds of id and every other entry of the apps and
\* windows maps unchanged.
C5_PositionIdempotent ==
    [][(last.op = "position_client" /\ last.res = "Ok")
          => \A e1, e2 \in BOOLEAN :
                PositionClient(last.arg[1], last.arg[2], TRUE, TRUE, e1, e2)
                    => (last'.res = "Ok" /\ windows' = windows /\ apps' = apps)]_vars

C5_Witness ==
    /\ last.op = "position_client" /\ last.res = "Ok"
    /\ last.prev.op = "position_client" /\ last.prev.res = "Ok"
    /\ last.prev.arg = last.arg
    /\ last.arg[2] = R1
    /\ Cardinality(DOMAIN windows) > 1

\* C6: client_geometry(X): when X is in the windows map no refresh is
\* performed and the cached bounds are returned; when X is absent refresh is
\* invoked exactly once, after which the bounds of X are returned if X is now
\* present and UnknownClient(X) otherwise.
C6_LookupRetry ==
    [][\A id \in {last'.arg} :
          (last'.op = "client_geometry" /\ ClientGeometry(id)) =>
          IF id \in DOMAIN windows
          THEN /\ last'.nref = 0
               /\ apps' = apps /\ windows' = windows
               /\ last'.res = "Ok" /\ last'.ret = windows[id].bounds
          ELSE /\ last'.nref = 1
               /\ DOMAIN windows' = Resolvable
               /\ IF id \in Resolvable
                  THEN last'.res = "Ok" /\ last'.ret = osBounds[id]
                  ELSE last'.res = "UnknownClient"]_vars

C6_Witness ==
    /\ last.op = "client_geometry" /\ last.nref = 1 /\ last.res = "Ok"
    /\ last.ret = windows[last.arg].bounds

C9_FocusLastNewWindow ==
    (last.op = "WindowCreated" /\ last.eng.managed # {})
        => \A id \in last.eng.managed : id <= last.eng.focus

C12_RaiseBeforeActivate ==
    [][\A id \in {last'.arg} : \A mainOk, raiseOk \in BOOLEAN :
          (/\ last'.op = "focus_client"
           /\ FocusClient(id, mainOk, raiseOk)
           /\ id \in DOMAIN windows') =>
          LET log == last'.log IN
          /\ \A i \in 1..Len(log) :
                log[i] = "activate" =>
                    (i = 3 /\ log[1] = "set_main" /\ log[2] = "raise"
                     /\ mainOk /\ raiseOk)
          /\ IF windows'[id].owner_pid \in apps' /\ mainOk /\ raiseOk
             THEN last'.res = "Ok" /\ log = <<"set_main", "raise", "activate">>
             ELSE last'.res # "Ok" /\ \A i \in 1..Len(log) : log[i] # "activate"]_vars

C12_Witness ==
    /\ last.op = "focus_client" /\ last.res = "Ok" /\ last.nref = 1
    /\ last.log = <<"set_main", "raise", "activate">>

\* C13: in with_suppressed_animations (position_client and hide_client), once
\* the window and its app are found: f runs; the write that re-enables the
\* app's flag is issued if and only if the flag was read as enabled and the
\* disable write succeeded; when issued it is the last call, after f, whether
\* f returned Ok or Err; and the value returned is f's result, whatever the
\* outcome of the re-enable write.
C13_ReenableAfterF ==
    [][\A a \in {last'.arg} : \A posOk, sizeOk, e1, e2 \in BOOLEAN :
          (/\ last'.op \in {"position_client", "hide_client"}
           /\ IF last'.op = "position_client"
              THEN PositionClient(a[1], a[2], posOk, sizeOk, e1, e2)
              ELSE sizeOk /\ HideClient(a[1], posOk, e1, e2)
           /\ a[1] \in DOMAIN windows'
           /\ windows'[a[1]].owner_pid \in apps') =>
          LET log == last'.log
              was_read == EuiRead(windows'[a[1]].owner_pid)
          IN
          /\ (\E i \in 1..Len(log) : log[i] = "eui_on") <=> (was_read /\ e1)
          /\ \A i \in 1..Len(log) :
                log[i] = "eui_on" =>
                    (i = Len(log) /\ \E j \in 1..(i - 1) : log[j] = "f")
          /\ \E i \in 1..Len(log) : log[i] = "f"
          /\ last'.res = IF posOk /\ sizeOk THEN "Ok" ELSE "Err"]_vars

C13_Witness ==
    /\ last.op = "hide_client" /\ last.res = "Err"
    /\ last.log = <<"eui_off", "f", "eui_on">>
    /\ ~osEui[1]

\* C14: for an app that honours the writes of its enhanced-user-interface
\* flag, the flag of every app has the same value after position_client(id,
\* r) or hide_client(id) returns, Ok or Err, as it had before the call.
C14_FlagRestored ==
    [][\A a \in {last'.arg} : \A posOk, sizeOk \in BOOLEAN :
          (/\ last'.op \in {"position_client", "hide_client"}
           /\ IF last'.op = "position_client"
              THEN PositionClient(a[1], a[2], posOk, sizeOk, TRUE, TRUE)
              ELSE sizeOk /\ HideClient(a[1], posOk, TRUE, TRUE))
            => osEui' = osEui]_vars

C14_Witness ==
    /\ last.op = "position_client" /\ last.res = "Err"
    /\ last.log = <<"eui_off", "f", "eui_on">>
    /\ osEui[1]

\* C15: set_hide_pt, when it succeeds, sets the hide point to (x + w - 1,
\* y + h - 1) of the last display of the list sorted by x: a display no other
\* display is to the right of, and the last enumerated of those with that x.
\* With the displays {0, 0, 1920, 1080} and {1920, 0, 2560, 1440} the hide
\* point is (4479, 1439) in whichever order the OS enumerates them.
C15_HidePtOfRightmost ==
    [][\A enum \in {last'.arg} :
          (last'.op = "set_hide_pt" /\ last'.res = "Ok") =>
          /\ \E i \in 1..Len(enum) :
                /\ hide_pt' = Point(enum[i].x + enum[i].w - 1,
                                    enum[i].y + enum[i].h - 1)
                /\ \A j \in 1..Len(enum) : enum[j].x <= enum[i].x
                /\ \A j \in (i + 1)..Len(enum) : enum[j].x < enum[i].x
          /\ enum \in {<<Rect(0, 0, 1920, 1080), Rect(1920, 0, 2560, 1440)>>,
                        <<Rect(1920, 0, 2560, 1440), Rect(0, 0, 1920, 1080)>>}
                => hide_pt' = Point(4479, 1439)]_vars

C15_Witness ==
    /\ last.op = "set_hide_pt" /\ last.res = "Ok"
    /\ last.arg = <<Rect(1920, 0, 2560, 1440), Rect(0, 0, 1920, 1080)>>
    /\ hide_pt = Point(4479, 1439)

\* C16: hide_client(id) on a tracked window of a tracked app whose position
\* write succeeds returns Ok without a refresh, moves the window to the hide
\* point keeping its size, sets the cached bounds x and y to the hide point
\* and leaves the cached w and h, the other attributes of the entry, every
\* other window entry, the keys of the windows map and the apps map
\* unchanged.
C16_HideFrame ==
    [][\A a \in {last'.arg} : \A e1, e2 \in BOOLEAN :
          (/\ last'.op = "hide_client"
           /\ a[1] \in DOMAIN windows
           /\ windows[a[1]].owner_pid \in apps
           /\ HideClient(a[1], TRUE, e1, e2)) =>
          LET id == a[1] IN
          /\ last'.res = "Ok" /\ last'.nref = 0
          /\ osBounds' = [osBounds EXCEPT ![id].x = hide_pt.x, ![id].y = hide_pt.y]
          /\ windows' = [windows EXCEPT ![id].bounds.x = hide_pt.x,
                                        ![id].bounds.y = hide_pt.y]
          /\ apps' = apps /\ hide_pt' = hide_pt]_vars

C16_Witness ==
    /\ last.op = "hide_client" /\ last.res = "Ok" /\ last.nref = 0
    /\ \A id \in {last.arg[1]} :
          /\ windows[id].bounds.x = hide_pt.x /\ windows[id].bounds.y = hide_pt.y
          /\ osBounds[id].x = hide_pt.x
          /\ windows[id].bounds.w # osBounds[id].w
    /\ Cardinality(DOMAIN windows) > 1

\* C17: the events the workspace and accessibility callbacks of the main
\* thread sent to the channel are returned by next_event in the order sent,
\* none lost, duplicated or reordered, also with KeyPress events of the
\* hotkey handler in between: the events of the callbacks already returned,
\* followed by those still in flight, are exactly the events sent, as long as
\* the receiver lives; and what was returned is always a prefix of what was
\* sent.
C17_ChannelFifo ==
    LET IsMain(e) == e.kind # "KeyPress"
        got == SelectSeq(rcvd, IsMain)
    IN
    /\ Len(got) <= Len(mainSent)
    /\ got = SubSeq(mainSent, 1, Len(got))
    /\ \A c \in {event_sender} \ {None} :
          rx[c] = "alive" =>
              got \o SelectSeq(chan[c], IsMain) = mainSent

C17_Witness ==
    /\ Len(rcvd) = 3
    /\ rcvd[1].kind = "AppTerminated"
    /\ rcvd[2].kind = "KeyPress"
    /\ rcvd[3].kind = "WindowCreated"
    /\ mainSent = <<rcvd[1], rcvd[3]>>

\* C18: a workspace callback or an accessibility callback that fires once
\* the receiver was dropped completes without a panic, discards its event
\* and changes no state; and no callback ever panics, neither for a failed
\* send nor for a missing sender.
C18_CallbacksNeverPanic ==
    [][\A kind \in {"AppActivated", "AppTerminated", "AXWindowCreated",
                     "AXUIElementDestroyed", "AXTitleChanged"} :
          (/\ crash = "none"
           /\ cb'.src = (IF kind \in WorkspaceKinds THEN "workspace" ELSE "ax")
           /\ IF kind \in WorkspaceKinds
              THEN WorkspaceCallback(kind, 1)
              ELSE AxObserverCallback(kind, 1)) =>
          /\ crash' = "none"
          /\ cb'.outcome # "panic"
          /\ \A c \in {event_sender} \ {None} :
                rx[c] = "dropped" =>
                  /\ cb'.outcome \in {"discarded", "unknown"}
                  /\ UNCHANGED <<baseVars, hide_pt, trusted, cursor, ax_timeout,
                                 event_sender, rx, chan, hotkey_tx, running,
                                 startup, ax_observers, crash, mainSent, rcvd>>]_vars

C18_Witness ==
    /\ cb = [src |-> "workspace", outcome |-> "discarded"]
    /\ event_sender = running
    /\ rx[running] = "dropped"
    /\ crash = "none"
    /\ ax_observers

\* C19: EVENT_SENDER is set before a workspace observer or an accessibility
\* observer is registered, and once set it never changes: a later
\* OsxConn::new does not replace it, and what the callbacks send goes to the
\* channel of the first connection.
C19_SenderSetOnce ==
    [][/\ (Did("register_observers") \/ ax_observers)' => event_sender' # None
       /\ event_sender # None => event_sender' = event_sender
       /\ event_sender' \in {None, 1}
       /\ \A c \in ConnIds : c # 1 => chan'[c] = <<>>]_vars

C19_Witness ==
    /\ rx[2] # "none"
    /\ event_sender = 1
    /\ Did("register_observers") /\ ax_observers
    /\ cb.outcome = "sent"
    /\ chan[1] # <<>>

\* C20: init_wm_and_run of a process that is not trusted panics at the trust
\* check: the timeout is not set, the engine thread not spawned, no observer
\* registered.  In a trusted process the steps executed are, in this order,
\* the trust check, the setting of the 1-second timeout, the setting of the
\* regular activation policy, the registration of the workspace observers,
\* the activation of the process and the entry of the run loop: each one
\* only after all those before it.
C20_StartupOrder ==
    LET Claimed == <<"proc_is_ax_trusted", "set_ax_timeout", "setActivationPolicy",
                     "register_observers", "activate", "run">>
        IsClaimed(n) == \E i \in 1..Len(Claimed) : Claimed[i] = n
        done == SelectSeq(startup, IsClaimed)
    IN
    /\ ~trusted =>
          /\ startup \in {<<>>, <<"proc_is_ax_trusted">>}
          /\ startup # <<>> => crash = "not_trusted"
          /\ ax_timeout = None /\ ~ax_observers
    /\ Len(done) <= Len(Claimed)
    /\ done = SubSeq(Claimed, 1, Len(done))
    /\ Did("set_ax_timeout") => ax_timeout = 1
    /\ Did("spawn") => Did("proc_is_ax_trusted") /\ trusted

C20_Witness ==
    /\ trusted
    /\ Did("run")
    /\ crash = "none"
    /\ ax_timeout = 1
    /\ cb = NoCb

\* C21: the client set of the engine holds only windows of layer 0: no
\* handler hands a window of another layer to the engine to be managed.
C21_ManagedAreLayer0 ==
    \A id \in client_set \cup last.eng.managed : LayerOf(id) = 0

\* C22: position_client, hide_client, kill_client, focus_client,
\* client_geometry and client_title refresh at most once per call; called
\* with an id that is not in the windows map and is not in it after the one
\* refresh either, each returns UnknownClient(id), has refreshed exactly once
\* and has made no call on the OS for the window: nothing of the OS changed.
C22_UnknownAfterRefresh ==
    [][\A op \in {last'.op} :
          op \in {"position_client", "hide_client", "kill_client",
                  "focus_client", "client_geometry", "client_title"} =>
          LET id == IF op \in {"position_client", "hide_client", "kill_client"}
                    THEN last'.arg[1] ELSE last'.arg
          IN
          /\ last'.nref <= 1
          /\ (id \notin DOMAIN windows /\ id \notin Resolvable) =>
                /\ last'.res = "UnknownClient"
                /\ last'.nref = 1
                /\ last'.log = <<>>
                /\ DOMAIN windows' = Resolvable
                /\ UNCHANGED osVars]_vars

C22_Witness ==
    /\ last.op = "kill_client" /\ last.res = "UnknownClient" /\ last.nref = 1
    /\ last.arg[1] \notin DOMAIN windows
    /\ last.arg[2]
    /\ windows # <<>>

\* C23: kill_client(id) on a tracked window whose close button can be read
\* performs the press action on the button and returns Ok.
C23_KillPressesButton ==
    [][\A a \in {last'.arg} :
          (/\ last'.op = "kill_client"
           /\ a[1] \in DOMAIN windows
           /\ a[2]) =>
          /\ last'.res = "Ok"
          /\ \E i \in 1..Len(last'.log) : last'.log[i] = "press"]_vars

\* C24: warp_pointer(id, x, y).  For the root id the cursor is warped to the
\* absolute point (x, y), without a lookup, and no window is focused.  For
\* another id that is tracked, or found by the one refresh, the cursor is
\* warped to (bounds.x + x, bounds.y + y) of the cached bounds and then
\* focus_client(id) is called: set-main, raise, activate follow the warp.
\* For an id unknown after one refresh UnknownClient(id) is returned and the
\* cursor is not warped.  (A warp the OS refuses returns an error and is
\* followed by no focus.)
C24_WarpPointer ==
    [][\A a \in {last'.arg} : \A warpOk, raiseOk \in BOOLEAN :
          (/\ last'.op = "warp_pointer"
           /\ WarpPointer(a[1], a[2], a[3], warpOk, warpOk, raiseOk)) =>
          LET id == a[1]
              log == last'.log
          IN
          IF id = ROOT
          THEN /\ last'.nref = 0
               /\ log = <<"warp">>
               /\ warpOk => (cursor' = Point(a[2], a[3]) /\ last'.res = "Ok")
          ELSE IF id \notin DOMAIN windows /\ id \notin Resolvable
          THEN /\ last'.res = "UnknownClient" /\ last'.nref = 1
               /\ log = <<>> /\ cursor' = cursor
          ELSE LET b == IF id \in DOMAIN windows THEN windows[id].bounds
                        ELSE osBounds[id]
               IN
               /\ log # <<>> /\ log[1] = "warp"
               /\ last'.ret = Point(b.x + a[2], b.y + a[3])
               /\ warpOk =>
                     /\ cursor' = Point(b.x + a[2], b.y + a[3])
                     /\ Len(log) >= 2 /\ log[2] = "set_main"
                     /\ raiseOk => (log = <<"warp", "set_main", "raise", "activate">>
                                      /\ last'.res = "Ok")
               /\ ~warpOk => (cursor' = cursor /\ log = <<"warp">>
                                /\ last'.res = "Err")]_vars

C24_Witness ==
    /\ last.op = "warp_pointer" /\ last.res = "Ok"
    /\ last.arg = <<1, 480, 540>>
    /\ windows[1].bounds = R0 /\ osBounds[1] = R1
    /\ cursor = Point(480, 540)
    /\ last.log = <<"warp", "set_main", "raise", "activate">>

\* C25: every pid in the apps map had the regular activation policy at the
\* most recent refresh.  Step by step: a pid enters the apps map only while
\* its process has the regular policy; a step that refreshed leaves in the
\* map no process that does not run with the regular policy, whether it was
\* in the map or not; and a step that did not refresh adds no pid.
C25_AppsAreRegular ==
    [][/\ \A p \in apps' \ apps : osApps[p] \in {"regular", "hung"}
       /\ last'.nref >= 1 => \A p \in apps' : osApps[p] \in {"regular", "hung"}
       /\ last'.nref = 0 => apps' \subseteq apps]_vars

C25_Witness ==
    /\ last.op = "refresh"
    /\ apps # {}
    /\ \E p \in Pids :
          /\ osApps[p] = "agent" /\ p \notin apps
          /\ \E id \in DOMAIN windows : windows[id].owner_pid = p

\* C26: the cached bounds of a tracked window are those of the last
\* successful position_client or hide_client on it, or those observed when
\* it was discovered: a refresh that a later operation triggers leaves the
\* cached bounds of every window already tracked as they were.
C26_RefreshKeepsBounds ==
    [][last'.nref >= 1 =>
          \A id \in (DOMAIN windows) \cap (DOMAIN windows') :
              windows'[id].bounds = windows[id].bounds]_vars

\* C27: the apps and windows maps are never touched by two threads at once:
\* a step of a callback of the main thread leaves them as they are, and a
\* step that changes them is a step of the engine thread alone, which sends
\* nothing; and the send of a callback never waits for the consumer: it can
\* be made however many events the engine has not received yet.
C27_MapsOwnedByEngine ==
    /\ [][/\ (cb' # cb \/ mainSent' # mainSent \/ Len(chan'[running]) > Len(chan[running]))
              => UNCHANGED <<apps, windows, client_set, current, last>>
          /\ <<apps, windows>>' # <<apps, windows>>
              => /\ UNCHANGED <<cb, mainSent, chan, rcvd>>
                 /\ last'.op \in {"AppLaunched", "AppTerminated", "WindowCreated"}
                 /\ rcvd # <<>> /\ rcvd[Len(rcvd)].kind = last'.op]_vars
    /\ [](/\ crash = "none" /\ rx[event_sender] = "alive"
           /\ Len(rcvd) + Len(chan[event_sender]) < MaxSends
           => ENABLED WorkspaceCallback("AppLaunched", 1))
C27_Witness ==
    /\ Len(chan[running]) >= 2
    /\ rcvd # <<>>
    /\ last.op = "WindowCreated"
    /\ windows # <<>>
    /\ cb.outcome = "sent"

\* C28: accessibility observers are registered only by the main thread: the
\* step in which observers come to be registered is a step of
\* init_wm_and_run or of a callback of the run loop, never a refresh made
\* by the engine thread.
C28_ObserversFromMainThread ==
    [][~ax_observers /\ ax_observers' => startup' # startup \/ cb' # cb]_vars

\* C29: current_windows skips without a word a window whose accessibility
\* handle is not found and returns the others; any other failure to build
\* the record of a window on screen is propagated: the enumeration made for
\* existing_clients then fails instead of leaving the window out.
C29_OtherFailuresPropagate ==
    /\ (last.op = "existing_clients" /\ \E w \in WinIds : osWins[w] = "unparsable")
           => last.res = "Err"
    /\ (last.op = "existing_clients" /\ \A w \in WinIds : osWins[w] # "unparsable")
           => (last.res = "Ok" /\ last.ret = Resolvable)

\* C30: OsxApp::try_new is all or nothing: when every registration succeeds
\* it returns Ok with an observer attached for WindowCreated and one for
\* FocusedWindowChanged, each with the pid as refcon; when a registration
\* fails it returns Err and no native observer created during the call is
\* still attached or retained.
C30_TryNewAllOrNothing ==
    last.op = "OsxApp::try_new" =>
        /\ (last.arg[2] = "ok" /\ last.arg[3] = "ok") =>
              /\ last.res = "Ok"
              /\ Len(last.ret) = 2
              /\ \A i \in 1..2 :
                    /\ last.ret[i].notif = APP_NOTIFICATIONS[i]
                    /\ last.ret[i].refcon = last.arg[1]
                    /\ last.ret[i].attached
        /\ (last.arg[2] # "ok" \/ last.arg[3] # "ok") =>
              /\ last.res = "Err"
              /\ \A i \in 1..Len(last.ret) :
                    ~last.ret[i].attached /\ last.ret[i].refs = 0

\* C31: the accessibility callback maps each of the seven known notification
\* names to one event: WindowCreated and FocusedWindowChanged carry the pid,
\* UiElementDestroyed, WindowMiniturized, WindowDeminiturized, WindowMoved
\* and WindowResized the window id; the integer carried is the pid (any i32)
\* or the window id (any u32) that was encoded into the refcon when the
\* observer was registered; any other name gives no event.
C31_CallbackDecodesRefcon ==
    LET Expected ==
            {<<"AXWindowCreated", "WindowCreated">>,
             <<"AXFocusedWindowChanged", "FocusedWindowChanged">>,
             <<"AXUIElementDestroyed", "UiElementDestroyed">>,
             <<"AXWindowMiniaturized", "WindowMiniturized">>,
             <<"AXWindowDeminiaturized", "WindowDeminiturized">>,
             <<"AXMoved", "WindowMoved">>,
             <<"AXResized", "WindowResized">>}
    IN
    last.op = "ax_observer_callback" =>
        /\ \A e \in Expected :
              last.arg[1] = e[1] =>
                  last.ret = [kind |-> e[2], arg |-> last.arg[2]]
        /\ (\A e \in Expected : last.arg[1] # e[1]) => last.ret = NoEvent
C31_Witness ==
    /\ last.op = "ax_observer_callback"
    /\ last.arg = <<"AXFocusedWindowChanged", -1>>
    /\ last.log = <<2^PtrBits - 1>>
    /\ last.ret.arg = -1

\* C32: a refresh reconciles the apps map and replaces the windows map: the
\* apps keys after it are the pids known before that still run with the
\* regular policy, plus the pids newly seen whose record could be
\* constructed, and the windows map holds one record for every window on
\* screen whose accessibility handle resolved.
C32_RefreshReconciles ==
    [][last'.nref >= 1 =>
          /\ apps' = (apps \cap RunningApplications)
                        \cup {p \in RunningApplications \ apps : TryNewOk(p)}
          /\ DOMAIN windows' = {w \in WinIds : osWins[w] \in {"ok", "unparsable"}}
          /\ \A w \in DOMAIN windows' : windows'[w] = TryFromDict(w)]_vars

\* C33: a window is destroyed for the connection and for the engine alike:
\* once UiElementDestroyed{id} was handled id is in neither the windows map
\* nor the client set of the engine, and a refresh that no longer finds a
\* managed id removes it from both; so after every handled event the client
\* set of the engine is a subset of the keys of the windows map.
C33_ClientSetWithinWindows ==
    /\ last.op = "UiElementDestroyed"
          => (last.arg \notin DOMAIN windows /\ last.arg \notin client_set)
    /\ last.op \in {"UiElementDestroyed", "WindowCreated", "AppTerminated",
                     "AppActivated"}
          => client_set \subseteq DOMAIN windows

C35_ObserversBeforeElement ==
    last.op = "drop" =>
        LET log == last.log
            notifs == ObserversOf(last.arg[1])
            Pos(c) == CHOOSE i \in 1..Len(log) : log[i] = c
        IN
        /\ \A i \in 1..Len(notifs) :
              /\ \E j \in 1..Len(log) :
                    log[j] = <<"AXObserverRemoveNotification", notifs[i]>>
              /\ \E j \in 1..Len(log) : log[j] = <<"CFRelease", notifs[i]>>
              /\ Pos(<<"AXObserverRemoveNotification", notifs[i]>>)
                    < Pos(<<"CFRelease", notifs[i]>>)
              /\ Pos(<<"CFRelease", notifs[i]>>) < Pos(<<"CFRelease", "element">>)
        /\ Cardinality({j \in 1..Len(log) : log[j] = <<"CFRelease", "element">>}) = 1
        /\ Len(log) = 2 * Len(notifs) + 1
C35_Witness ==
    /\ last.op = "drop"
    /\ last.arg[1] = "window"
    /\ Len(last.log) = 11
    /\ last.log[11] = <<"CFRelease", "element">>

C37_ShowClientNoOp ==
    [][last'.op = "show_client" =>
          /\ last'.res = "Ok" /\ last'.nref = 0 /\ last'.log = <<>>
          /\ UNCHANGED <<osVars, apps, windows, hide_pt, engVars>>]_vars
C37_Witness ==
    /\ last.op = "show_client"
    /\ last.arg \in DOMAIN windows
    /\ windows[last.arg].bounds = [R0 EXCEPT !.x = hide_pt.x, !.y = hide_pt.y]
    /\ osBounds[last.arg] = windows[last.arg].bounds
    /\ hide_pt # Point(0, 0)
    /\ \E id \in WinIds : id \notin DOMAIN windows

\* C38: handle_event for AppDeactivated, AppHidden, AppUnhidden, WindowMoved,
\* WindowResized, WindowMiniturized and WindowDeminiturized returns Ok and
\* leaves the apps map, the windows map with its cached bounds, the hide
\* point and the state of the engine unchanged, whatever pid or id the event
\* carries, tracked or not.
C38_NoOpEvents ==
    [][last'.op \in NoOpEvents =>
          /\ last'.res = "Ok" /\ last'.nref = 0
          /\ last'.eng = NoEng
          /\ UNCHANGED <<apps, windows, hide_pt, engVars, osVars>>]_vars
C38_Witness ==
    /\ last.op = "WindowMoved"
    /\ last.arg \in DOMAIN windows
    /\ osWins[last.arg] = "absent"
    /\ \E id \in WinIds : osWins[id] = "ok" /\ id \notin DOMAIN windows

\* C40: focus_client(id) never panics: when the window is tracked and its
\* owning pid is not in the apps map it returns an error value, and the
\* engine thread keeps running.
C40_FocusClientNeverPanics ==
    last.op = "focus_client" =>
        /\ last.res \in {"Ok", "Err", "UnknownClient"}
        /\ Alive

\* C39: when the position write or the size write of position_client(id, r)
\* fails, or the position write of hide_client(id), the call returns the
\* error and the bounds cached for id are what they were before the call;
\* the cached bounds change only when every write of the closure succeeded,
\* and then to what was written.  (The writes are those of the closure,
\* set_pos and set_size; id is a window the map held before the call.)
C39_FailedWriteKeepsCache ==
    [][LET id == last'.arg[1]
           to == IF last'.op = "position_client" THEN last'.arg[2] ELSE hide_pt
       IN
       (last'.op \in {"position_client", "hide_client"} /\ id \in DOMAIN windows) =>
          /\ id \in DOMAIN windows'
          /\ last'.nref = 0
          /\ last'.res \in {"Ok", "Err"}
          /\ last'.res = "Err" =>
                /\ windows'[id].bounds = windows[id].bounds
                /\ osBounds'[id] \in
                      {osBounds[id],
                       [osBounds[id] EXCEPT !.x = to.x, !.y = to.y]}
          /\ windows'[id].bounds # windows[id].bounds => last'.res = "Ok"
          /\ last'.res = "Ok" =>
                /\ windows'[id].bounds.x = osBounds'[id].x
                /\ windows'[id].bounds.y = osBounds'[id].y
                /\ last'.op = "position_client" =>
                      /\ windows'[id].bounds = last'.arg[2]
                      /\ osBounds'[id] = last'.arg[2]
                /\ last'.op = "hide_client" =>
                      windows'[id].bounds =
                          [windows[id].bounds EXCEPT !.x = hide_pt.x, !.y = hide_pt.y]
      ]_vars
\* position_client(id, R0) on a window cached at R1: the position was written
\* and the size write failed
C39_Witness ==
    /\ last.op = "position_client"
    /\ last.res = "Err"
    /\ last.arg[1] \in DOMAIN windows
    /\ windows[last.arg[1]].bounds = R1
    /\ osBounds[last.arg[1]] = [R1 EXCEPT !.x = R0.x, !.y = R0.y]

====
